---- MODULE Spec2Model ----
(***************************************************************************)
(* A model of the trollup rollup node: the transaction pool and the        *)
(* commitment pool, the ExecutionEngine's execute_block, the               *)
(* StateCommitment main loop with its direct and optimistic paths, the     *)
(* finalize write sequence, the pending registry behind its read-write     *)
(* lock, and the optimistic commitment processor task.                     *)
(*                                                                         *)
(* Threads: the engine and the committer each run on their own OS thread   *)
(* (api/src/main.rs 62, 78), the optimistic processor is a task spawned    *)
(* on the committer's multi-threaded runtime, and HTTP readers read the    *)
(* sled stores directly.  Every sled call is one atomic step; a handler    *)
(* that makes several of them is a sequence of steps that the other        *)
(* threads can observe in between.                                         *)
(***************************************************************************)
EXTENDS Integers, Sequences, FiniteSets, TLC

\* ------------------------------------------------------------------ bounds
MaxTransactions == 1      \* transactions ever submitted over HTTP
MaxPackages == 2          \* packages ever added to the commitment pool
MaxL1Events == 1          \* account notifications ever delivered by the L1
ChannelCapacity == 1      \* mpsc::channel(100), scaled down
OptimisticTimeout == 1    \* CONFIG.optimistic_timeout, in clock ticks
MaxPoolCalls == 3         \* add calls made on the two pools taken alone
MaxChunk == 2             \* largest chunk asked of a pool taken alone
MaxBatch == 3             \* transactions submitted to the engine's batch step
MaxQueued == 5            \* transactions queued ahead of the engine's dequeue
MaxConfigured == 5        \* largest TRANSACTION_BATCH_AMOUNT that is set
MaxCalls == 4             \* start and stop calls made on the two instances
MaxSignatures == 2        \* signatures of a transaction that is converted
MaxAccountKeys == 2       \* account keys of its message
MaxInstructions == 1      \* instructions of its message
RootWidth == 6            \* bytes of a state root that is signed
MaxBatches == 2           \* batches the engine runs through the account loader
MaxLookups == 3           \* accounts the SVM asks the loader for
MaxWrites == 1            \* account snapshots written between two batches
MaxEvents == 1            \* events sent to the main loop taken alone

\* ------------------------------------------------------- program constants
BatchAmount == 4          \* get_next_transactions(4)
DefaultBatchAmount == 10  \* transaction_batch_amount when the variable is unset

\* ------------------------------------------------------------ data domains
Signatures == {"s1"}

NoId == <<>>
NoPkg == <<>>

\* An AccountState is a record [address, lamports]: the address and the
\* balance stand for the whole snapshot.

\* StateRecord::get_key of an AccountState: the address bytes.
AccountKey(state) == state.address

\* StateRecord::get_key of a TrollupTransaction: SHA-256 of signatures[0].
TransactionKey(tx) == <<"sha256", tx.signature>>

Transactions == [signature : Signatures, optimistic : BOOLEAN]

\* Block::get_id: SHA-256 of "block_" followed by the decimal number.
get_id(block_number) == <<"block_", block_number>>

Range(s) == {s[i] : i \in 1..Len(s)}

\* The lists of account snapshots a batch can produce: one snapshot per
\* address, in the order the batch touched the accounts.
StateRecordLists ==
  {<<[address |-> "A", lamports |-> 1]>>,
   <<[address |-> "B", lamports |-> 1], [address |-> "A", lamports |-> 1]>>}

\* ------------------------------------------------------------ Merkle trees
\* Sha256::hash(to_vec(record)): a collision-free hash, kept symbolic.
LeafHash(record) == <<"leaf", record>>

\* One level of the rs_merkle tree: neighbours are hashed in pairs, a last
\* node without a neighbour moves up unchanged.
RECURSIVE MerkleLevel(_)
MerkleLevel(nodes) ==
  IF Len(nodes) = 0 THEN <<>>
  ELSE IF Len(nodes) = 1 THEN <<nodes[1]>>
  ELSE <<(<<"node", nodes[1], nodes[2]>>)>> \o MerkleLevel(SubSeq(nodes, 3, Len(nodes)))

RECURSIVE MerkleRoot(_)
MerkleRoot(leaves) ==
  IF Len(leaves) = 1 THEN leaves[1] ELSE MerkleRoot(MerkleLevel(leaves))

\* TreeComposite::new: both trees and the index map are empty.  A tree is
\* its committed leaves and its staged (uncommitted) leaves.
TreeComposite_new ==
  [state_tree |-> [committed |-> <<>>, staged |-> <<>>],
   transaction_tree |-> [committed |-> <<>>, staged |-> <<>>]]

\* A variant of add_states that stages the leaves in reverse order.
add_states_reversed(tree_composite, state_records) ==
  [tree_composite EXCEPT !.state_tree.staged =
     @ \o [i \in 1..Len(state_records) |->
             LeafHash(state_records[Len(state_records) + 1 - i])]]

\* TreeComposite::add_states: one staged leaf per record, in iteration order.
add_states(tree_composite, state_records) ==
  [tree_composite EXCEPT !.state_tree.staged =
     @ \o [i \in 1..Len(state_records) |-> LeafHash(state_records[i])]]

\* TreeComposite::add_transactions.
add_transactions(tree_composite, transactions) ==
  [tree_composite EXCEPT !.transaction_tree.staged =
     @ \o [i \in 1..Len(transactions) |-> LeafHash(transactions[i])]]

\* TreeComposite::get_uncommitted_root: the root over committed and staged
\* leaves of the state tree.
get_uncommitted_root(tree_composite) ==
  MerkleRoot(tree_composite.state_tree.committed \o tree_composite.state_tree.staged)

\* transaction_tree.commit() followed by transaction_tree.root().
committed_transaction_root(tree_composite) ==
  MerkleRoot(tree_composite.transaction_tree.committed
               \o tree_composite.transaction_tree.staged)

\* ------------------------------------------------------------------- pools
\* StatePool::add / VecDeque::push_back.
pool_add(pool, package) == Append(pool, package)

\* StatePool::get_next_chunk and TransactionPool::get_next_transactions:
\* the number of items a call for `chunk` items pops.
chunk_size(pool, chunk) == IF chunk < Len(pool) THEN chunk ELSE Len(pool)

\* The items popped, oldest first.
get_next_chunk(pool, chunk) == SubSeq(pool, 1, chunk_size(pool, chunk))

\* A variant of after_next_chunk that removes one item more than was returned.
after_next_chunk_dropping(pool, chunk) ==
  SubSeq(pool, chunk_size(pool, chunk) + 2, Len(pool))

\* The pool left behind.
after_next_chunk(pool, chunk) == SubSeq(pool, chunk_size(pool, chunk) + 1, Len(pool))

\* StatePool::get_next / TransactionPool::get_next_transaction: pop_front.
get_next(pool) == IF Len(pool) = 0 THEN <<>> ELSE <<Head(pool)>>
after_next(pool) == IF Len(pool) = 0 THEN pool ELSE Tail(pool)

\* ------------------------------------------------------------------- state
VARIABLES
  transaction_pool,     \* TransactionPool.pool
  commitment_pool,      \* StateCommitmentPool.pool
  account_store,        \* sled: address -> AccountState
  transaction_store,    \* sled: transaction key -> TrollupTransaction
  block_store,          \* sled: block id -> Block
  latest_block_id,      \* sled: the "LATEST_BLOCK" slot of the block store
  optimistic_store,     \* sled: state root -> pending StateCommitmentPackage
  commitments,          \* the pending registry: state root -> CommitmentEntry
  readers,              \* tasks holding a read guard of the registry lock
  pda_channel,          \* mpsc channel PdaListener -> optimistic processor
  processor_channel,    \* mpsc channel optimistic processor -> main loop
  committer,            \* the StateCommitter::start loop: position and locals
  processor,            \* the optimistic processor task: position and locals
  engine,               \* the ExecutionEngine loop: position and locals
  counts,               \* how many inputs the environment has supplied
  history               \* what finalize wrote, and the packages settled

vars ==
  <<transaction_pool, commitment_pool, account_store, transaction_store,
    block_store, latest_block_id, optimistic_store, commitments, readers,
    pda_channel, processor_channel, committer, processor, engine, counts,
    history>>

\* An empty sled tree or HashMap.
EmptyMap == <<>>

\* db.insert(key, value) / HashMap::insert: overwrites.
Put(map, key, value) ==
  [k \in DOMAIN map \cup {key} |-> IF k = key THEN value ELSE map[k]]

\* db.remove(key) / HashMap::remove.
Delete(map, key) == [k \in DOMAIN map \ {key} |-> map[k]]

\* sled::Batch of inserts, applied atomically (set_state_records).
\* `keys` are the records' get_key values, in the same order.
RECURSIVE set_state_records(_, _, _)
set_state_records(map, keys, records) ==
  IF Len(records) = 0 THEN map
  ELSE set_state_records(Put(map, Head(keys), Head(records)),
                         Tail(keys), Tail(records))

CommitterIdle ==
  [pc |-> "select", source |-> "none", package |-> NoPkg,
   state_root |-> NoId, tree |-> TreeComposite_new, block |-> NoId]

ProcessorIdle == [pc |-> "select", slept |-> 0, kind |-> "none", todo |-> {}]

EngineIdle == [pc |-> "idle", account_states |-> <<>>, index |-> 0, block |-> NoId]

\* StateCommitment::new, ExecutionEngine::new, TransactionPool::new,
\* SledStateManagement::new (a temporary, empty database).
Init ==
  /\ transaction_pool = <<>>
  /\ commitment_pool = <<>>
  /\ account_store = EmptyMap
  /\ transaction_store = EmptyMap
  /\ block_store = EmptyMap
  /\ latest_block_id = NoId
  /\ optimistic_store = EmptyMap
  /\ commitments = EmptyMap
  /\ readers = {}
  /\ pda_channel = <<>>
  /\ processor_channel = <<>>
  /\ committer = CommitterIdle
  /\ processor = ProcessorIdle
  /\ engine = EngineIdle
  /\ counts = [transactions |-> 0, packages |-> 0, l1_events |-> 0]
  /\ history = [account_writes |-> {}, finalized |-> {}, settled |-> 0]

\* ------------------------------------------------------------- environment
\* Handler::send_transaction_handler / send_transaction_optimistic_handler:
\* TransactionPool::add_transaction stores the transaction and queues it.
SendTransaction(tx) ==
  /\ counts.transactions < MaxTransactions
  /\ transaction_store' = Put(transaction_store, TransactionKey(tx), tx)
  /\ transaction_pool' = pool_add(transaction_pool, tx)
  /\ counts' = [counts EXCEPT !.transactions = @ + 1]
  /\ UNCHANGED <<commitment_pool, account_store, block_store, latest_block_id,
                 optimistic_store, commitments, readers, pda_channel,
                 processor_channel, committer, processor, engine, history>>

\* StateCommitmentPackage::new: no proof, no state root yet.
StateCommitmentPackage_new(optimistic, state_records, transactions) ==
  [optimistic |-> optimistic,
   state_root |-> NoId,
   state_records |-> state_records,
   transactions |-> transactions,
   transaction_ids |-> [i \in 1..Len(transactions) |-> TransactionKey(transactions[i])]]

\* The packages a batch can hand to the commitment pool.
Packages ==
  {StateCommitmentPackage_new(tx.optimistic, records, <<tx>>) :
     tx \in Transactions, records \in StateRecordLists}

\* StatePool::add, called by the producer of commitment packages.
PoolAdd(package) ==
  /\ counts.packages < MaxPackages
  /\ commitment_pool' = pool_add(commitment_pool, package)
  /\ counts' = [counts EXCEPT !.packages = @ + 1]
  /\ UNCHANGED <<transaction_pool, account_store, transaction_store, block_store,
                 latest_block_id, optimistic_store, commitments, readers,
                 pda_channel, processor_channel, committer, processor, engine,
                 history>>

\* PdaListener::connect_and_listen: an accountNotification carries the
\* anchored state root; pda_sender.send waits while the channel is full.
PdaNotify(state_root) ==
  /\ counts.l1_events < MaxL1Events
  /\ Len(pda_channel) < ChannelCapacity
  /\ pda_channel' = Append(pda_channel, state_root)
  /\ counts' = [counts EXCEPT !.l1_events = @ + 1]
  /\ UNCHANGED <<transaction_pool, commitment_pool, account_store,
                 transaction_store, block_store, latest_block_id,
                 optimistic_store, commitments, readers, processor_channel,
                 committer, processor, engine, history>>

\* The state roots an L1 notification can carry.
StateRoots ==
  {get_uncommitted_root(add_states(TreeComposite_new, records)) :
     records \in StateRecordLists}

\* Saturating age: Instant::elapsed and tokio::time::sleep only compare the
\* elapsed time with CONFIG.optimistic_timeout.
Older(age) == IF age < OptimisticTimeout THEN age + 1 ELSE age

\* One tick of the clock: every registry entry and the processor's running
\* sleep grow older.
Tick ==
  /\ commitments' = [r \in DOMAIN commitments |->
                       [commitments[r] EXCEPT !.age = Older(@)]]
  /\ processor' = IF processor.pc = "select"
                    THEN [processor EXCEPT !.slept = Older(@)]
                    ELSE processor
  /\ UNCHANGED <<transaction_pool, commitment_pool, account_store,
                 transaction_store, block_store, latest_block_id,
                 optimistic_store, readers, pda_channel, processor_channel,
                 committer, engine, counts, history>>

\* ------------------------------------------------------------------ blocks
\* Block::new (state/src/block.rs): the id is derived from the number.  The
\* proofs are opaque bytes and are left out.
Block_new(block_number, transactions_merkle_root, accounts_merkle_root, transactions, accounts) ==
  [id |-> get_id(block_number),
   block_number |-> block_number,
   transactions_merkle_root |-> transactions_merkle_root,
   accounts_merkle_root |-> accounts_merkle_root,
   transactions |-> transactions,
   accounts |-> accounts]

\* A variant of next_block_number that skips a number.
next_block_number_skipping(latest, blocks) ==
  IF latest # NoId /\ latest \in DOMAIN blocks
    THEN blocks[latest].block_number + 2
    ELSE 1

\* The block number finalize gives the next block: get_latest_block_id,
\* then get_state_record of that id, then block_number + 1, else 1.
next_block_number(latest, blocks) ==
  IF latest # NoId /\ latest \in DOMAIN blocks
    THEN blocks[latest].block_number + 1
    ELSE 1

\* The Block finalize builds: Block::new with the previous block id as its
\* second argument.
finalize_block(block_number, tree_composite, account_state_root, package) ==
  [id |-> get_id(block_number),
   block_number |-> block_number,
   previous_block_id |-> get_id(block_number - 1),
   transactions_merkle_root |-> committed_transaction_root(tree_composite),
   accounts_merkle_root |-> account_state_root,
   transactions |-> package.transaction_ids,
   accounts |-> [i \in 1..Len(package.state_records) |->
                   package.state_records[i].address]]

\* --------------------------------------------------------- ExecutionEngine
\* StateCommitmentLayer::get_state_root of the engine's commitment layer:
\* the Merkle root over the records handed to update_record.
layer_state_root(records) ==
  MerkleRoot([i \in 1..Len(records) |-> LeafHash(records[i])])

\* execute_block, lines 121-160 and 173-176: dequeue up to four
\* transactions (an empty pool returns at once), execute them, read the
\* latest block and build the next one.  The account snapshots are what the
\* SVM produced for the batch.
EngineExecute(account_states) ==
  /\ engine.pc = "idle"
  /\ Len(transaction_pool) > 0
  /\ LET transactions == get_next_chunk(transaction_pool, BatchAmount)
         transaction_ids == [i \in 1..Len(transactions) |->
                               TransactionKey(transactions[i])]
         \* get_latest_block_id().unwrap_or(get_id(0)), then
         \* get_state_record(..).unwrap_or(Block::default()).block_number + 1
         block_number == next_block_number(latest_block_id, block_store)
         block == Block_new(block_number, layer_state_root(transactions),
                            layer_state_root(account_states), transaction_ids,
                            [i \in 1..Len(account_states) |->
                               account_states[i].address])
     IN /\ transaction_pool' = after_next_chunk(transaction_pool, BatchAmount)
        /\ engine' = [pc |-> "write_accounts", account_states |-> account_states,
                      index |-> 1, block |-> block]
  /\ UNCHANGED <<commitment_pool, account_store, transaction_store, block_store,
                 latest_block_id, optimistic_store, commitments, readers,
                 pda_channel, processor_channel, committer, processor, counts,
                 history>>

\* execute_block, lines 163-171: one set_state_record per account snapshot.
EngineWriteAccount ==
  /\ engine.pc = "write_accounts"
  /\ LET state == engine.account_states[engine.index]
     IN account_store' = Put(account_store, AccountKey(state), state)
  /\ engine' = IF engine.index = Len(engine.account_states)
                 THEN [engine EXCEPT !.pc = "set_latest"]
                 ELSE [engine EXCEPT !.index = @ + 1]
  /\ UNCHANGED <<transaction_pool, commitment_pool, transaction_store,
                 block_store, latest_block_id, optimistic_store, commitments,
                 readers, pda_channel, processor_channel, committer, processor,
                 counts, history>>

\* execute_block, line 178: set_latest_block_id.
EngineSetLatest ==
  /\ engine.pc = "set_latest"
  /\ latest_block_id' = engine.block.id
  /\ engine' = [engine EXCEPT !.pc = "put_block"]
  /\ UNCHANGED <<transaction_pool, commitment_pool, account_store,
                 transaction_store, block_store, optimistic_store, commitments,
                 readers, pda_channel, processor_channel, committer, processor,
                 counts, history>>

\* execute_block, lines 179-181: set_state_record of the block, commit.
EnginePutBlock ==
  /\ engine.pc = "put_block"
  /\ block_store' = Put(block_store, engine.block.id, engine.block)
  /\ engine' = EngineIdle
  /\ UNCHANGED <<transaction_pool, commitment_pool, account_store,
                 transaction_store, latest_block_id, optimistic_store,
                 commitments, readers, pda_channel, processor_channel,
                 committer, processor, counts, history>>

\* ------------------------------------------------ the pending registry lock
\* tokio::sync::RwLock: a write is granted when nobody holds a read guard;
\* the lock is fair, so a read queues behind a waiting writer.
CanWrite == readers = {}
WriterQueued == committer.pc \in {"add_wait", "remove_wait"}
CanRead == ~WriterQueued

\* add_commitment, after its write lock is granted: persist the package in
\* the optimistic store and insert the entry with Instant::now().
add_commitment_store(store, package) == Put(store, package.state_root, package)
add_commitment(registry, package) ==
  Put(registry, package.state_root, [package |-> package, age |-> 0])

\* remove_commitment, after its write lock is granted.
remove_commitment_store(store, id) == Delete(store, id)
remove_commitment(registry, id) == Delete(registry, id)

\* ------------------------------------------------- StateCommitment main loop
\* The tree read_from_pool, verify_with_validator and the OnChain arm build
\* for a package: a new TreeComposite with the package's transactions and
\* account states staged.
package_tree(package) ==
  add_states(add_transactions(TreeComposite_new, package.transactions),
             package.state_records)

\* A variant of pending_package that leaves the state root unset.
pending_package_without_root(package, account_state_root) ==
  [package EXCEPT !.optimistic = TRUE]

\* The package read_from_pool registers: optimistic, with its state root.
pending_package(package, account_state_root) ==
  [package EXCEPT !.optimistic = TRUE, !.state_root = account_state_root]

Settled == [history EXCEPT !.settled = @ + 1]

\* The read_from_pool branch of the select, lines 182-232: pop the next
\* package (an empty pool returns at once).  An optimistic package is
\* registered, at once when the registry lock is free; any other package
\* goes to the validator.
ReadFromPool ==
  /\ committer.pc = "select"
  /\ Len(commitment_pool) > 0
  /\ LET package == Head(commitment_pool)
         tree == package_tree(package)
         root == get_uncommitted_root(tree)
         pending == pending_package(package, root)
     IN /\ commitment_pool' = after_next(commitment_pool)
        /\ IF package.optimistic /\ CanWrite
             THEN /\ optimistic_store' = add_commitment_store(optimistic_store, pending)
                  /\ commitments' = add_commitment(commitments, pending)
                  /\ committer' = CommitterIdle
                  /\ history' = Settled
             ELSE /\ committer' =
                       [pc |-> IF package.optimistic THEN "add_wait"
                                                     ELSE "await_validator",
                        source |-> "pool",
                        package |-> IF package.optimistic THEN pending ELSE package,
                        state_root |-> root, tree |-> tree, block |-> NoId]
                  /\ UNCHANGED <<optimistic_store, commitments, history>>
  /\ UNCHANGED <<transaction_pool, account_store, transaction_store, block_store,
                 latest_block_id, readers, pda_channel, processor_channel,
                 processor, engine, counts>>

\* self.commitments.write().await is granted: add_commitment (lines 381-393)
\* or remove_commitment (lines 395-400) runs, and the caller goes on.  After
\* remove_commitment the event arm ends and drops its read guard.
CommitmentsWrite ==
  /\ WriterQueued
  /\ CanWrite
  /\ IF committer.pc = "add_wait"
       THEN /\ optimistic_store' =
                 add_commitment_store(optimistic_store, committer.package)
            /\ commitments' = add_commitment(commitments, committer.package)
            /\ history' = Settled
            /\ UNCHANGED readers
       ELSE /\ optimistic_store' =
                 remove_commitment_store(optimistic_store, committer.state_root)
            /\ commitments' = remove_commitment(commitments, committer.state_root)
            /\ readers' = readers \ {"committer"}
            /\ UNCHANGED history
  /\ committer' = CommitterIdle
  /\ UNCHANGED <<transaction_pool, commitment_pool, account_store,
                 transaction_store, block_store, latest_block_id, pda_channel,
                 processor_channel, processor, engine, counts>>

\* The arm of the select for a message of the optimistic processor, lines
\* 480-513: take a read guard, look the entry up (expect panics when it is
\* missing, and the unwinding drops the guard), and either rebuild the tree
\* and finalize (OnChain) or go to the validator (TimeOut).  The guard lives
\* to the end of the arm.
Receive(message) ==
  IF message.state_root \notin DOMAIN commitments
    THEN /\ committer' = [CommitterIdle EXCEPT !.pc = "panicked"]
         /\ UNCHANGED readers
    ELSE LET package == commitments[message.state_root].package
             tree == package_tree(package)
         IN /\ readers' = readers \cup {"committer"}
            /\ committer' =
                 [pc |-> IF message.processor_type = "OnChain"
                           THEN "finalize_accounts" ELSE "await_validator",
                  source |-> message.processor_type,
                  package |-> package,
                  state_root |-> message.state_root,
                  tree |-> tree, block |-> NoId]

\* The select takes the message branch while no other branch is running.
ReceiveMessage ==
  /\ committer.pc = "select"
  /\ Len(processor_channel) > 0
  /\ processor_channel' = Tail(processor_channel)
  /\ Receive(Head(processor_channel))
  /\ UNCHANGED <<transaction_pool, commitment_pool, account_store,
                 transaction_store, block_store, latest_block_id,
                 optimistic_store, commitments, pda_channel, processor, engine,
                 counts, history>>

\* The places where the read_from_pool future is suspended inside the
\* select: waiting for the registry write lock, for the validator's
\* response, or for the L1 confirmation.
Suspended ==
  /\ committer.source = "pool"
  /\ committer.pc \in {"add_wait", "await_validator", "await_confirm"}

\* The select completes with the message branch while read_from_pool is
\* suspended: the read_from_pool future is dropped together with the
\* package it had dequeued, and the message is handled.
ReceiveWhileSuspended ==
  /\ Suspended
  /\ Len(processor_channel) > 0
  /\ processor_channel' = Tail(processor_channel)
  /\ Receive(Head(processor_channel))
  /\ UNCHANGED <<transaction_pool, commitment_pool, account_store,
                 transaction_store, block_store, latest_block_id,
                 optimistic_store, commitments, pda_channel, processor, engine,
                 counts, history>>

\* The processor task has ended and the channel is drained: recv() yields
\* None at once (the None arm does nothing), which also completes the
\* select and drops a suspended read_from_pool.
ReceiveClosed ==
  /\ Suspended
  /\ processor.pc = "panicked"
  /\ Len(processor_channel) = 0
  /\ committer' = CommitterIdle
  /\ UNCHANGED <<transaction_pool, commitment_pool, account_store,
                 transaction_store, block_store, latest_block_id,
                 optimistic_store, commitments, readers, pda_channel,
                 processor_channel, processor, engine, counts, history>>

\* A variant of AfterVerify that finalizes although the attempt has failed.
AfterVerify_finalizing ==
  /\ committer' = [committer EXCEPT !.pc = "finalize_accounts"]
  /\ UNCHANGED history

\* What follows read_from_pool's or the TimeOut arm's verify_with_validator
\* when it returns without finalizing: read_from_pool is done with its
\* package, the TimeOut arm goes on to remove_commitment.
AfterVerify ==
  IF committer.source = "pool"
    THEN /\ committer' = CommitterIdle
         /\ history' = Settled
    ELSE /\ committer' = [committer EXCEPT !.pc = "remove_wait"]
         /\ UNCHANGED history

\* verify_with_validator, lines 251-257 and 296-302: the validator's answer.
\* An error and an unsuccessful response end the attempt; a success goes on
\* to the confirmation of the signature.
ValidatorResponds(result) ==
  /\ committer.pc = "await_validator"
  /\ IF result = "success"
       THEN /\ committer' = [committer EXCEPT !.pc = "await_confirm"]
            /\ UNCHANGED history
       ELSE AfterVerify
  /\ UNCHANGED <<transaction_pool, commitment_pool, account_store,
                 transaction_store, block_store, latest_block_id,
                 optimistic_store, commitments, readers, pda_channel,
                 processor_channel, processor, engine, counts>>

\* verify_with_validator, lines 261-293: confirm_transaction has returned
\* true and get_transaction tells whether the L1 transaction succeeded.
TransactionConfirmed(meta_ok) ==
  /\ committer.pc = "await_confirm"
  /\ IF meta_ok
       THEN /\ committer' = [committer EXCEPT !.pc = "finalize_accounts"]
            /\ UNCHANGED history
       ELSE AfterVerify
  /\ UNCHANGED <<transaction_pool, commitment_pool, account_store,
                 transaction_store, block_store, latest_block_id,
                 optimistic_store, commitments, readers, pda_channel,
                 processor_channel, processor, engine, counts>>

\* finalize, lines 325-326: the batch of account records.
FinalizeAccounts ==
  /\ committer.pc = "finalize_accounts"
  /\ LET records == committer.package.state_records
     IN account_store' =
          set_state_records(account_store,
                            [i \in 1..Len(records) |-> AccountKey(records[i])],
                            records)
  /\ history' = [history EXCEPT !.account_writes = @ \cup {committer.package}]
  /\ committer' = [committer EXCEPT !.pc = "finalize_transactions"]
  /\ UNCHANGED <<transaction_pool, commitment_pool, transaction_store,
                 block_store, latest_block_id, optimistic_store, commitments,
                 readers, pda_channel, processor_channel, processor, engine,
                 counts>>

\* finalize, lines 327-330: the batch of transaction records.
FinalizeTransactions ==
  /\ committer.pc = "finalize_transactions"
  /\ LET transactions == committer.package.transactions
     IN transaction_store' =
          set_state_records(transaction_store,
                            [i \in 1..Len(transactions) |->
                               TransactionKey(transactions[i])],
                            transactions)
  /\ committer' = [committer EXCEPT !.pc = "finalize_number"]
  /\ UNCHANGED <<transaction_pool, commitment_pool, account_store, block_store,
                 latest_block_id, optimistic_store, commitments, readers,
                 pda_channel, processor_channel, processor, engine, counts,
                 history>>

\* finalize, lines 337-358: read the latest block and build the next one.
FinalizeNumber ==
  /\ committer.pc = "finalize_number"
  /\ committer' =
       [committer EXCEPT
          !.pc = "finalize_latest",
          !.block = finalize_block(next_block_number(latest_block_id, block_store),
                                   committer.tree, committer.state_root,
                                   committer.package)]
  /\ UNCHANGED <<transaction_pool, commitment_pool, account_store,
                 transaction_store, block_store, latest_block_id,
                 optimistic_store, commitments, readers, pda_channel,
                 processor_channel, processor, engine, counts, history>>

\* finalize, lines 361-362: set_latest_block_id.
FinalizeLatest ==
  /\ committer.pc = "finalize_latest"
  /\ latest_block_id' = committer.block.id
  /\ committer' = [committer EXCEPT !.pc = "finalize_put"]
  /\ UNCHANGED <<transaction_pool, commitment_pool, account_store,
                 transaction_store, block_store, optimistic_store, commitments,
                 readers, pda_channel, processor_channel, processor, engine,
                 counts, history>>

\* finalize, lines 363-364: set_state_record of the block, commit.  Then
\* finalize returns: read_from_pool is done, an event arm goes on to
\* remove_commitment.
FinalizePut ==
  /\ committer.pc = "finalize_put"
  /\ block_store' = Put(block_store, committer.block.id, committer.block)
  /\ history' =
       [history EXCEPT
          !.finalized = @ \cup {[package |-> committer.package,
                                 block |-> committer.block,
                                 source |-> committer.source]},
          !.settled = IF committer.source = "pool" THEN @ + 1 ELSE @]
  /\ committer' = IF committer.source = "pool"
                    THEN CommitterIdle
                    ELSE [committer EXCEPT !.pc = "remove_wait"]
  /\ UNCHANGED <<transaction_pool, commitment_pool, account_store,
                 transaction_store, latest_block_id, optimistic_store,
                 commitments, readers, pda_channel, processor_channel,
                 processor, engine, counts>>

\* ------------------------------------------- optimistic commitment processor
CommitmentProcessorMessage(processor_type, state_root) ==
  [processor_type |-> processor_type, state_root |-> state_root]

\* Line 436: the test that selects the entries the timeout scan reports.
is_old(entry) == entry.age < OptimisticTimeout

\* The PDA arm, lines 414-427: take the notification and a read guard and
\* look the state root up; expect panics the task when no entry matches.
\* The receive and the read lock are one step here: a read that has to
\* queue behind a writer delays the arm as a whole.
ProcessorPda ==
  /\ processor.pc = "select"
  /\ Len(pda_channel) > 0
  /\ CanRead
  /\ pda_channel' = Tail(pda_channel)
  /\ IF Head(pda_channel) \in DOMAIN commitments
       THEN /\ readers' = readers \cup {"processor"}
            /\ processor' = [pc |-> "send", slept |-> 0, kind |-> "OnChain",
                             todo |-> {Head(pda_channel)}]
       ELSE /\ processor' = [ProcessorIdle EXCEPT !.pc = "panicked"]
            /\ UNCHANGED readers
  /\ UNCHANGED <<transaction_pool, commitment_pool, account_store,
                 transaction_store, block_store, latest_block_id,
                 optimistic_store, commitments, processor_channel, committer,
                 engine, counts, history>>

\* The sleep arm, lines 429-433: the sleep of optimistic_timeout seconds,
\* started when the select was entered, has elapsed; take a read guard and
\* start iterating over the registry.
ProcessorTimeout ==
  /\ processor.pc = "select"
  /\ processor.slept >= OptimisticTimeout
  /\ CanRead
  /\ IF DOMAIN commitments = {}
       THEN /\ processor' = ProcessorIdle
            /\ UNCHANGED readers
       ELSE /\ readers' = readers \cup {"processor"}
            /\ processor' = [pc |-> "send", slept |-> 0, kind |-> "TimeOut",
                             todo |-> DOMAIN commitments]
  /\ UNCHANGED <<transaction_pool, commitment_pool, account_store,
                 transaction_store, block_store, latest_block_id,
                 optimistic_store, commitments, pda_channel, processor_channel,
                 committer, engine, counts, history>>

\* Lines 426 and 434-444: the next entry (HashMap order).  The PDA arm
\* always sends OnChain; the scan sends TimeOut for an entry that passes the
\* test of line 436.  send waits while the channel is full.  After the last
\* entry the guard is dropped and the loop selects again with a new sleep.
ProcessorSend(state_root) ==
  /\ processor.pc = "send"
  /\ state_root \in processor.todo
  /\ LET sends == processor.kind = "OnChain" \/ is_old(commitments[state_root])
         rest == processor.todo \ {state_root}
     IN /\ sends => Len(processor_channel) < ChannelCapacity
        /\ processor_channel' =
             IF sends
               THEN Append(processor_channel,
                           CommitmentProcessorMessage(processor.kind, state_root))
               ELSE processor_channel
        /\ IF rest = {}
             THEN /\ processor' = ProcessorIdle
                  /\ readers' = readers \ {"processor"}
             ELSE /\ processor' = [processor EXCEPT !.todo = rest]
                  /\ UNCHANGED readers
  /\ UNCHANGED <<transaction_pool, commitment_pool, account_store,
                 transaction_store, block_store, latest_block_id,
                 optimistic_store, commitments, pda_channel, committer, engine,
                 counts, history>>

\* ----------------------------------------------------------- specification
Environment ==
  \/ \E tx \in Transactions : SendTransaction(tx)
  \/ \E package \in Packages : PoolAdd(package)
  \/ \E state_root \in StateRoots : PdaNotify(state_root)
  \/ Tick

Engine ==
  \/ \E account_states \in StateRecordLists : EngineExecute(account_states)
  \/ EngineWriteAccount
  \/ EngineSetLatest
  \/ EnginePutBlock

Committer ==
  \/ ReadFromPool
  \/ CommitmentsWrite
  \/ ReceiveMessage
  \/ \E result \in {"error", "rejected", "success"} : ValidatorResponds(result)
  \/ \E meta_ok \in BOOLEAN : TransactionConfirmed(meta_ok)
  \/ FinalizeAccounts
  \/ FinalizeTransactions
  \/ FinalizeNumber
  \/ FinalizeLatest
  \/ FinalizePut

\* The select of the main loop completing with the message branch while
\* read_from_pool is suspended.
Cancellation ==
  \/ ReceiveWhileSuspended
  \/ ReceiveClosed

Processor ==
  \/ ProcessorPda
  \/ ProcessorTimeout
  \/ \E state_root \in StateRoots : ProcessorSend(state_root)

Next == Environment \/ Engine \/ Committer \/ Cancellation \/ Processor

Spec == Init /\ [][Next]_vars

\* The clock advances, and the three loops keep taking the steps they can
\* take: the validator and the L1 answer every request, the tasks are
\* scheduled.  The environment is under no obligation to produce input, and
\* a race between the two branches of the select can go either way.
FairSpec ==
  /\ Spec
  /\ WF_vars(Tick)
  /\ WF_vars(Engine)
  /\ WF_vars(Committer)
  /\ WF_vars(Processor)

\* ----------------------------------------------------------------- restart
\* The process ends and main() runs again: the pools, the registry, the
\* channels and the three loops are created anew (StateCommitment::new
\* starts with an empty HashMap and reads nothing back), and every
\* SledStateManagement::new opens Config::new().temporary(true) without a
\* path, which is a new, empty database.  What the environment has supplied
\* so far stays supplied.
Restart ==
  /\ transaction_pool' = <<>>
  /\ commitment_pool' = <<>>
  /\ account_store' = EmptyMap
  /\ transaction_store' = EmptyMap
  /\ block_store' = EmptyMap
  /\ latest_block_id' = NoId
  /\ optimistic_store' = EmptyMap
  /\ commitments' = EmptyMap
  /\ readers' = {}
  /\ pda_channel' = <<>>
  /\ processor_channel' = <<>>
  /\ committer' = CommitterIdle
  /\ processor' = ProcessorIdle
  /\ engine' = EngineIdle
  /\ history' = [account_writes |-> {}, finalized |-> {}, settled |-> 0]
  /\ UNCHANGED counts

RestartNext == Next \/ Restart

RestartSpec == Init /\ [][RestartNext]_vars

\* ---------------------------------------------------- the pools taken alone
\* The two pools driven by arbitrary callers.  Here history records, for
\* each pool, what was added and what was returned, and the last chunk call.
PoolTransactions == [signature : {"s1", "s2"}, optimistic : {FALSE}]

PoolPackages ==
  {StateCommitmentPackage_new(optimistic, <<[address |-> "A", lamports |-> 1]>>,
                              <<[signature |-> "s1", optimistic |-> optimistic]>>) :
     optimistic \in BOOLEAN}

NoCall == [chunk |-> 0, size |-> 0, returned |-> <<>>]

PoolInit ==
  /\ transaction_pool = <<>>
  /\ commitment_pool = <<>>
  /\ account_store = EmptyMap
  /\ transaction_store = EmptyMap
  /\ block_store = EmptyMap
  /\ latest_block_id = NoId
  /\ optimistic_store = EmptyMap
  /\ commitments = EmptyMap
  /\ readers = {}
  /\ pda_channel = <<>>
  /\ processor_channel = <<>>
  /\ committer = CommitterIdle
  /\ processor = ProcessorIdle
  /\ engine = EngineIdle
  /\ counts = [transactions |-> 0, packages |-> 0, l1_events |-> 0]
  /\ history = [transactions_added |-> <<>>, transactions_returned |-> <<>>,
                packages_added |-> <<>>, packages_returned |-> <<>>,
                last_call |-> NoCall]

PoolUnchanged ==
  UNCHANGED <<account_store, block_store, latest_block_id, optimistic_store,
              commitments, readers, pda_channel, processor_channel, committer,
              processor, engine>>

\* TransactionPool::add_transaction: store the transaction, push_back.
add_transaction(tx) ==
  /\ counts.transactions + counts.packages < MaxPoolCalls
  /\ transaction_store' = Put(transaction_store, TransactionKey(tx), tx)
  /\ transaction_pool' = pool_add(transaction_pool, tx)
  /\ counts' = [counts EXCEPT !.transactions = @ + 1]
  /\ history' = [history EXCEPT !.transactions_added = Append(@, tx)]
  /\ UNCHANGED commitment_pool
  /\ PoolUnchanged

\* TransactionPool::get_next_transaction: pop_front.
get_next_transaction ==
  /\ transaction_pool' = after_next(transaction_pool)
  /\ history' = [history EXCEPT
                   !.transactions_returned = @ \o get_next(transaction_pool)]
  /\ UNCHANGED <<commitment_pool, transaction_store, counts>>
  /\ PoolUnchanged

\* TransactionPool::get_next_transactions(chunk).
get_next_transactions(chunk) ==
  /\ transaction_pool' = after_next_chunk(transaction_pool, chunk)
  /\ history' = [history EXCEPT
                   !.transactions_returned = @ \o get_next_chunk(transaction_pool, chunk),
                   !.last_call = [chunk |-> chunk, size |-> Len(transaction_pool),
                                  returned |-> get_next_chunk(transaction_pool, chunk)]]
  /\ UNCHANGED <<commitment_pool, transaction_store, counts>>
  /\ PoolUnchanged

\* StateCommitmentPool::add.
StatePool_add(package) ==
  /\ counts.transactions + counts.packages < MaxPoolCalls
  /\ commitment_pool' = pool_add(commitment_pool, package)
  /\ counts' = [counts EXCEPT !.packages = @ + 1]
  /\ history' = [history EXCEPT !.packages_added = Append(@, package)]
  /\ UNCHANGED <<transaction_pool, transaction_store>>
  /\ PoolUnchanged

\* StateCommitmentPool::get_next.
StatePool_get_next ==
  /\ commitment_pool' = after_next(commitment_pool)
  /\ history' = [history EXCEPT
                   !.packages_returned = @ \o get_next(commitment_pool)]
  /\ UNCHANGED <<transaction_pool, transaction_store, counts>>
  /\ PoolUnchanged

\* StateCommitmentPool::get_next_chunk(chunk).
StatePool_get_next_chunk(chunk) ==
  /\ commitment_pool' = after_next_chunk(commitment_pool, chunk)
  /\ history' = [history EXCEPT
                   !.packages_returned = @ \o get_next_chunk(commitment_pool, chunk),
                   !.last_call = [chunk |-> chunk, size |-> Len(commitment_pool),
                                  returned |-> get_next_chunk(commitment_pool, chunk)]]
  /\ UNCHANGED <<transaction_pool, transaction_store, counts>>
  /\ PoolUnchanged

PoolNext ==
  \/ \E tx \in PoolTransactions : add_transaction(tx)
  \/ get_next_transaction
  \/ \E chunk \in 0..MaxChunk : get_next_transactions(chunk)
  \/ \E package \in PoolPackages : StatePool_add(package)
  \/ StatePool_get_next
  \/ \E chunk \in 0..MaxChunk : StatePool_get_next_chunk(chunk)

PoolSpec == PoolInit /\ [][PoolNext]_vars

\* ------------------------------------------- the engine's batch taken alone
\* execute_block, lines 121-149, as a function of the batch, of what the
\* SVM makes of each transaction, and of the iteration order of tx_map.
\* A transaction carries its first signature and its fate: whether it
\* sanitizes, loads and executes.
Fates == {"executed", "not_executed", "unloadable", "unsanitary"}

BatchTransactions == [signature : {"s1", "s2"}, fate : Fates]

\* batch_sanitize_transactions: filter_map keeps, in order, the
\* transactions that sanitize.
Sanitizes(tx) == tx.fate # "unsanitary"
batch_sanitize_transactions(transactions) == SelectSeq(transactions, Sanitizes)

\* load_and_execute_sanitized_transactions: one load result and one
\* execution result per sanitized transaction, in the order given.  The
\* accounts of a loaded transaction are that transaction's own.
svm_result(tx) ==
  [loaded |-> tx.fate # "unloadable",
   executed |-> tx.fate = "executed",
   accounts |-> <<[address |-> tx.signature, lamports |-> 1]>>]

execute_svm_transactions(sanitized_txs) ==
  [i \in 1..Len(sanitized_txs) |-> svm_result(sanitized_txs[i])]

\* Lines 130-133: collect into a HashMap keyed by get_key; a later
\* transaction with the same key replaces an earlier one.
tx_map(transactions) ==
  LET keys == {TransactionKey(transactions[i]) : i \in 1..Len(transactions)}
      last(key) == CHOOSE i \in 1..Len(transactions) :
                     /\ TransactionKey(transactions[i]) = key
                     /\ \A j \in (i + 1)..Len(transactions) :
                          TransactionKey(transactions[j]) # key
  IN [key \in keys |-> transactions[last(key)]]

\* The orders in which HashMap::iter can visit the keys of a map.
IterationOrders(map) ==
  {order \in [1..Cardinality(DOMAIN map) -> DOMAIN map] :
     \A i, j \in 1..Cardinality(DOMAIN map) : i # j => order[i] # order[j]}

\* extract_successful_transactions: the i-th entry visited is matched with
\* loaded_txs[i] and exec_results[i].  Indexing past the end panics, and so
\* does unwrap on a load error.
RECURSIVE extract_from(_, _, _, _)
extract_from(map, order, results, i) ==
  IF i > Len(order) THEN [panicked |-> FALSE, outcomes |-> <<>>]
  ELSE IF i > Len(results) \/ ~results[i].loaded
    THEN [panicked |-> TRUE, outcomes |-> <<>>]
    ELSE LET rest == extract_from(map, order, results, i + 1)
             outcome == [trollup_transaction |-> map[order[i]],
                         accounts |-> results[i].accounts]
         IN [panicked |-> rest.panicked,
             outcomes |-> IF results[i].executed
                            THEN <<outcome>> \o rest.outcomes
                            ELSE rest.outcomes]

extract_successful_transactions(map, order, results) ==
  extract_from(map, order, results, 1)

NoBatch ==
  [batch |-> <<>>, panicked |-> FALSE, outcomes |-> <<>>, transaction_ids |-> <<>>]

BatchInit ==
  /\ transaction_pool = <<>>
  /\ commitment_pool = <<>>
  /\ account_store = EmptyMap
  /\ transaction_store = EmptyMap
  /\ block_store = EmptyMap
  /\ latest_block_id = NoId
  /\ optimistic_store = EmptyMap
  /\ commitments = EmptyMap
  /\ readers = {}
  /\ pda_channel = <<>>
  /\ processor_channel = <<>>
  /\ committer = CommitterIdle
  /\ processor = ProcessorIdle
  /\ engine = EngineIdle
  /\ counts = [transactions |-> 0, packages |-> 0, l1_events |-> 0]
  /\ history = NoBatch

\* TransactionPool::add_transaction of a transaction of the batch.
BatchSend(tx) ==
  /\ counts.transactions < MaxBatch
  /\ transaction_store' = Put(transaction_store, TransactionKey(tx), tx)
  /\ transaction_pool' = pool_add(transaction_pool, tx)
  /\ counts' = [counts EXCEPT !.transactions = @ + 1]
  /\ UNCHANGED <<commitment_pool, history, engine>>
  /\ PoolUnchanged

\* execute_block, lines 121-149: dequeue the batch, sanitize, execute,
\* extract the outcomes and collect the transaction ids.  A panic ends the
\* engine's thread.  history keeps the batch and what was made of it.
BatchExecute(order) ==
  /\ engine.pc = "idle"
  /\ Len(transaction_pool) > 0
  /\ LET transactions == get_next_chunk(transaction_pool, BatchAmount)
         sanitized_txs == batch_sanitize_transactions(transactions)
         map == tx_map(transactions)
         results == execute_svm_transactions(sanitized_txs)
         extracted == extract_successful_transactions(map, order, results)
     IN /\ order \in IterationOrders(map)
        /\ transaction_pool' = after_next_chunk(transaction_pool, BatchAmount)
        /\ engine' = IF extracted.panicked
                       THEN [EngineIdle EXCEPT !.pc = "panicked"]
                       ELSE EngineIdle
        /\ history' =
             [batch |-> transactions,
              panicked |-> extracted.panicked,
              outcomes |-> extracted.outcomes,
              transaction_ids |->
                [i \in 1..Len(extracted.outcomes) |->
                   TransactionKey(extracted.outcomes[i].trollup_transaction)]]
  /\ UNCHANGED <<commitment_pool, transaction_store, counts>>
  /\ PoolUnchanged

BatchKeys == {TransactionKey(tx) : tx \in BatchTransactions}

BatchNext ==
  \/ \E tx \in BatchTransactions : BatchSend(tx)
  \/ \E order \in UNION {[1..n -> BatchKeys] : n \in 1..Cardinality(BatchKeys)} :
       BatchExecute(order)

BatchSpec == BatchInit /\ [][BatchNext]_vars

\* ------------------------------------------------------------------ claims
\* The number of the block the latest-block slot names (0 for an empty slot).
LatestNumber == IF latest_block_id = NoId THEN 0 ELSE latest_block_id[2]

\* The account records of the packages whose accounts finalize has written.
FinalizedAccountStates ==
  UNION {Range(package.state_records) : package \in history.account_writes}

\* C1: every AccountState in the account store was written by the
\* finalization step of a package; no other step of the pipeline writes one.
C1_AccountsOnlyFromFinalize ==
  \A address \in DOMAIN account_store :
    account_store[address] \in FinalizedAccountStates

\* C2: in every state, the intermediate states of finalize included, a
\* latest-block slot that holds an id names a block that is already stored.
\* (States in which the engine is between its own two block writes are left
\* aside, so that the property speaks of finalize.)
C2_LatestBlockIsStored ==
  (latest_block_id # NoId /\ engine.pc # "put_block")
    => latest_block_id \in DOMAIN block_store

\* C3: every finalization moves the latest block number up by exactly one,
\* so the numbers it takes are 1, 2, 3, ... without gap, repeat or decrease.
C3_LatestNumberAdvancesByOne ==
  [][FinalizeLatest => LatestNumber' = LatestNumber + 1]_vars

C5_AccountsRootInInsertionOrder ==
  \A f \in history.finalized :
    LET records == f.package.state_records
    IN /\ f.block.accounts_merkle_root =
            MerkleRoot([i \in 1..Len(records) |-> LeafHash(records[i])])
       /\ f.block.accounts = [i \in 1..Len(records) |-> records[i].address]
       /\ f.block.id \in DOMAIN block_store

\* A package with two account states has been finalized.
C5_Witness ==
  \E f \in history.finalized : Len(f.package.state_records) = 2

\* C6: whenever the stores can be observed, the account records finalize
\* wrote for a package are there only if the package's block is stored and
\* the latest-block slot names that block or a later one.
C6_NoIntermediateState ==
  \A package \in history.account_writes :
    \E f \in history.finalized :
      /\ f.package = package
      /\ f.block.id \in DOMAIN block_store
      /\ LatestNumber >= f.block.block_number

\* The packages taken from the commitment pool so far.
Dequeued == counts.packages - Len(commitment_pool)

\* The package read_from_pool is working on, if any.
InFlight == IF committer.source = "pool" THEN 1 ELSE 0

\* C8: every package the main loop has dequeued has reached an outcome
\* (finalized, registered as pending, or discarded after a failure) or is
\* still being processed; none is abandoned.
C8_NoPackageAbandoned == Dequeued = history.settled + InFlight

\* An event for the state root has been sent to the main loop: it is queued
\* in the channel or the main loop is handling it.
Emitted(state_root) ==
  \/ \E i \in 1..Len(processor_channel) :
       processor_channel[i].state_root = state_root
  \/ /\ committer.source \in {"OnChain", "TimeOut"}
     /\ committer.state_root = state_root

\* C9: every state root inserted into the pending registry is resolved, and
\* resolved once: after an event for it has been emitted, its entry leaves
\* the registry, so that no later event can resolve it again.
C9_EmittedEntryIsResolved ==
  \A state_root \in StateRoots :
    Emitted(state_root) ~> (state_root \notin DOMAIN commitments)

\* The processor task has ended, or the registry lock has a writer waiting.
ProcessorStopped == processor.pc = "panicked" \/ WriterQueued

\* C10: for every entry of the pending registry an OnChain or a TimeOut
\* event for its state root is eventually emitted, as long as the processor
\* task runs and can take the registry lock.
C10_EveryEntryGetsAnEvent ==
  \A state_root \in StateRoots :
    (state_root \in DOMAIN commitments /\ ~ProcessorStopped)
      ~> (Emitted(state_root) \/ ProcessorStopped)

Min(a, b) == IF a < b THEN a ELSE b

ScanStep(state_root) == ProcessorSend(state_root) /\ processor.kind = "TimeOut"

\* The scan step has sent an event to the main loop.
ScanEmits == Len(processor_channel') = Len(processor_channel) + 1

\* C11: the scan emits TimeOut for exactly the entries whose age has passed
\* optimistic_timeout: none for a younger entry, one for every older entry.
C11_ScanEmitsForOldEntriesOnly ==
  [][\A state_root \in StateRoots :
       ScanStep(state_root) =>
         (ScanEmits <=> commitments[state_root].age >= OptimisticTimeout)]_vars

\* The main loop is in the arm of the given event type for state_root.
Handling(processor_type, state_root) ==
  /\ committer.source = processor_type
  /\ committer.state_root = state_root

\* The entry of state_root is gone from the registry and the optimistic
\* store, and the main loop is back at its select.
Removed(state_root) ==
  /\ state_root \notin DOMAIN commitments
  /\ state_root \notin DOMAIN optimistic_store
  /\ committer.pc = "select"

\* C12: when the main loop processes OnChain(r) for a registered r, it
\* eventually has written the block, removed r from the registry and the
\* optimistic store, and returned to its select for later work.
C12_OnChainCompletes ==
  \A state_root \in StateRoots :
    Handling("OnChain", state_root) ~> Removed(state_root)

\* The TimeOut arm has finalized the package of state_root (the block is
\* written) and has reached remove_commitment.
TimeOutFinalized(state_root) ==
  /\ Handling("TimeOut", state_root)
  /\ committer.pc = "remove_wait"
  /\ committer.block # NoId

\* C13: after TimeOut(r), the entry r is removed when the validator retry
\* succeeded and the package was finalized.
C13_TimeOutSuccessRemoves ==
  \A state_root \in StateRoots :
    TimeOutFinalized(state_root) ~> Removed(state_root)

\* The direct path learns that the attempt has failed: the validator call
\* errs or is unsuccessful, or the L1 transaction is reported failed.
DirectPathFails ==
  /\ committer.source = "pool"
  /\ \/ \E result \in {"error", "rejected"} : ValidatorResponds(result)
     \/ TransactionConfirmed(FALSE)

\* C14: a failure on the direct path leaves the account store, the
\* transaction store, the block store and the latest block id unchanged,
\* discards the package and returns the main loop to its select.
C14_DirectFailureLeavesStores ==
  [][DirectPathFails =>
       /\ UNCHANGED <<account_store, transaction_store, block_store,
                      latest_block_id, optimistic_store, commitments>>
       /\ committer' = CommitterIdle
       /\ history'.settled = history.settled + 1
       /\ history'.account_writes = history.account_writes
       /\ history'.finalized = history.finalized]_vars

\* A package has been discarded after a failure: it is settled, and nothing
\* was registered, finalized or stored.
C14_Witness ==
  /\ history.settled > 0
  /\ history.account_writes = {}
  /\ commitments = EmptyMap
  /\ block_store = EmptyMap
  /\ account_store = EmptyMap
  /\ latest_block_id = NoId
  /\ committer.pc = "select"
  /\ Len(commitment_pool) > 0

\* The step by which read_from_pool registers the optimistic package.
Registers(package) ==
  \/ /\ ReadFromPool
     /\ Head(commitment_pool) = package
     /\ package.optimistic
     /\ CanWrite
  \/ /\ CommitmentsWrite
     /\ committer.pc = "add_wait"
     /\ committer.package.state_records = package.state_records
     /\ committer.package.transactions = package.transactions

\* The uncommitted account Merkle root of a package.
AccountRoot(package) ==
  MerkleRoot([i \in 1..Len(package.state_records) |->
                LeafHash(package.state_records[i])])

\* C15: processing an optimistic package inserts one entry, keyed by the
\* package's account Merkle root and carrying that root as state_root, into
\* the registry and the optimistic store, and leaves the account store, the
\* transaction store, the block store and the latest block id unchanged.
C15_RegistrationInsertsOneEntry ==
  [][\A package \in Packages :
       Registers(package) =>
         LET root == AccountRoot(package)
             entry == [package EXCEPT !.optimistic = TRUE, !.state_root = root]
         IN /\ DOMAIN commitments' = DOMAIN commitments \cup {root}
            /\ DOMAIN optimistic_store' = DOMAIN optimistic_store \cup {root}
            /\ commitments'[root].package = entry
            /\ optimistic_store'[root] = entry
            /\ \A other \in DOMAIN commitments \ {root} :
                 commitments'[other] = commitments[other]
            /\ UNCHANGED <<account_store, transaction_store, block_store,
                           latest_block_id>>]_vars

\* Two optimistic packages are registered and nothing has been finalized.
C15_Witness ==
  /\ Cardinality(DOMAIN commitments) = 2
  /\ history.finalized = {}

\* C16: the pending registry survives a restart: every package registered
\* and not resolved before the restart is in the registry after it.
C16_RegistrySurvivesRestart ==
  [][Restart =>
       \A state_root \in DOMAIN commitments :
         /\ state_root \in DOMAIN commitments'
         /\ commitments'[state_root].package = commitments[state_root].package]_vars

\* A finalization has completed and none is under way.
FinalizationCompleted ==
  /\ history.finalized # {}
  /\ committer.pc \notin {"finalize_accounts", "finalize_transactions",
                          "finalize_number", "finalize_latest", "finalize_put"}

\* C17: after a completed finalization, a restart and reopening of the
\* stores yield the same latest block and the same account records.
C17_FinalizedStateSurvivesRestart ==
  [][(Restart /\ FinalizationCompleted) =>
       /\ latest_block_id' = latest_block_id
       /\ block_store' = block_store
       /\ account_store' = account_store]_vars

\* The transactions of the last batch have distinct ids.
DistinctBatch ==
  \A i, j \in 1..Len(history.batch) :
    i # j => TransactionKey(history.batch[i]) # TransactionKey(history.batch[j])

\* A batch has been executed.
BatchDone == Len(history.batch) > 0

Executes(tx) == tx.fate = "executed"

\* C18: for a batch of distinct transactions, the emitted transaction ids
\* are those of the successfully executed transactions in pool order, and
\* every outcome carries the account snapshots of its own transaction.
C18_OutcomesInPoolOrder ==
  (BatchDone /\ DistinctBatch /\ ~history.panicked) =>
    /\ history.transaction_ids =
         [i \in 1..Len(SelectSeq(history.batch, Executes)) |->
            TransactionKey(SelectSeq(history.batch, Executes)[i])]
    /\ \A i \in 1..Len(history.outcomes) :
         history.outcomes[i].accounts =
           svm_result(history.outcomes[i].trollup_transaction).accounts

\* C19: a transaction that fails to sanitize, to load or to execute is
\* dropped by itself: the engine keeps running and the outcomes are those
\* of exactly the other transactions of the batch.
C19_FailuresStayInBatch ==
  (BatchDone /\ DistinctBatch) =>
    /\ engine.pc # "panicked"
    /\ {history.outcomes[i].trollup_transaction : i \in 1..Len(history.outcomes)}
         = {tx \in Range(history.batch) : Executes(tx)}

\* The last batch holds the executable transaction tx twice.
Duplicated(tx) ==
  /\ Executes(tx)
  /\ \E i, j \in 1..Len(history.batch) :
       i # j /\ history.batch[i] = tx /\ history.batch[j] = tx

\* C20: when a batch holds two transactions with the same first signature,
\* the engine does not fail and exactly one outcome carries that id.
C20_DuplicateContributesOnce ==
  \A tx \in BatchTransactions :
    Duplicated(tx) =>
      /\ ~history.panicked
      /\ Cardinality({i \in 1..Len(history.transaction_ids) :
                        history.transaction_ids[i] = TransactionKey(tx)}) = 1

\* execute_block returns after having executed a non-empty batch.
BatchCompletes == engine.pc = "put_block" /\ engine'.pc = "idle"

\* The OR of the optimistic flags of the transactions of the engine's batch.
BatchOptimistic ==
  \E i \in 1..Len(engine.block.transactions) :
    transaction_store[engine.block.transactions[i]].optimistic

\* C21: a non-empty batch leaves execute_block with one package added to the
\* commitment pool, whose optimistic flag is the OR of the batch's flags.
C21_BatchEnqueuesPackage ==
  [][BatchCompletes =>
       /\ Len(commitment_pool') = Len(commitment_pool) + 1
       /\ commitment_pool'[Len(commitment_pool')].optimistic = BatchOptimistic]_vars

\* ------------------------------------- the engine under a configured batch
\* TrollupConfig::build: TRANSACTION_BATCH_AMOUNT parsed from the
\* environment, 10 when it is absent or does not parse.
ConfiguredAmounts == (1..MaxConfigured) \cup {DefaultBatchAmount}

\* The node started with an empty transaction pool under one configuration.
ConfiguredInit ==
  /\ transaction_pool = <<>>
  /\ commitment_pool = <<>>
  /\ account_store = EmptyMap
  /\ transaction_store = EmptyMap
  /\ block_store = EmptyMap
  /\ latest_block_id = NoId
  /\ optimistic_store = EmptyMap
  /\ commitments = EmptyMap
  /\ readers = {}
  /\ pda_channel = <<>>
  /\ processor_channel = <<>>
  /\ committer = CommitterIdle
  /\ processor = ProcessorIdle
  /\ engine = EngineIdle
  /\ counts = [transactions |-> 0, packages |-> 0, l1_events |-> 0]
  /\ \E amount \in ConfiguredAmounts :
       history = [transaction_batch_amount |-> amount]

\* Handler::send_transaction_handler: TransactionPool::add_transaction.
ConfiguredSend(tx) ==
  /\ counts.transactions < MaxQueued
  /\ transaction_store' = Put(transaction_store, TransactionKey(tx), tx)
  /\ transaction_pool' = pool_add(transaction_pool, tx)
  /\ counts' = [counts EXCEPT !.transactions = @ + 1]
  /\ UNCHANGED <<commitment_pool, history, engine>>
  /\ PoolUnchanged

\* execute_block, lines 122-125: an empty pool returns at once.
EngineReturnsEmpty ==
  /\ engine.pc = "idle"
  /\ Len(transaction_pool) = 0
  /\ UNCHANGED vars

ConfiguredNext ==
  \/ \E tx \in Transactions : ConfiguredSend(tx)
  \/ EngineReturnsEmpty
  \/ Engine

ConfiguredSpec == ConfiguredInit /\ [][ConfiguredNext]_vars

\* The engine's iteration starts: execute_block is entered.
IterationStarts == engine.pc = "idle" /\ engine' # engine

\* C22: an iteration dequeues at least one and at most
\* transaction_batch_amount transactions of a non-empty pool and executes
\* them at once; on an empty pool it changes no store, no pool and not the
\* engine.
C22_DequeuesAtMostConfigured ==
  [][/\ IterationStarts =>
          /\ Len(transaction_pool) - Len(transaction_pool') >= 1
          /\ Len(transaction_pool) - Len(transaction_pool')
               <= history.transaction_batch_amount
          /\ engine'.pc # "idle"
     /\ (engine.pc = "idle" /\ Len(transaction_pool) = 0) =>
          UNCHANGED <<engine, account_store, block_store, latest_block_id,
                      commitment_pool>>]_vars

\* ------------------------------------- the lifecycle of the two instances
\* EngineState and CommitterState: Initialized, Running, Stopped.  `pc` is
\* "none" while no start call is running, "top" at the head of the run loop
\* and "body" inside an iteration.  start takes &mut self for as long as it
\* runs, so a stop called meanwhile cannot execute: stop_requested records
\* that the caller is waiting.
Instance_new == [state |-> "Initialized", pc |-> "none", stop_requested |-> FALSE]

LifecycleInit ==
  /\ transaction_pool = <<>>
  /\ commitment_pool = <<>>
  /\ account_store = EmptyMap
  /\ transaction_store = EmptyMap
  /\ block_store = EmptyMap
  /\ latest_block_id = NoId
  /\ optimistic_store = EmptyMap
  /\ commitments = EmptyMap
  /\ readers = {}
  /\ pda_channel = <<>>
  /\ processor_channel = <<>>
  /\ processor = ProcessorIdle
  /\ engine = Instance_new
  /\ committer = Instance_new
  /\ counts = [calls |-> 0]
  /\ history = [engine |-> <<"Initialized">>, committer |-> <<"Initialized">>]

LifecycleUnchanged ==
  UNCHANGED <<transaction_pool, commitment_pool, account_store,
              transaction_store, block_store, latest_block_id,
              optimistic_store, commitments, readers, pda_channel,
              processor_channel, processor>>

\* The states an instance has been in, oldest first, without repetitions.
Moved(states, state) ==
  IF states[Len(states)] = state THEN states ELSE Append(states, state)

\* start, up to the head of the loop: the state becomes Running whatever
\* it was (execution_engine.rs:104, state_commitment_layer.rs:468).
start(instance) == [instance EXCEPT !.state = "Running", !.pc = "top"]

\* stop: the state becomes Stopped, if the call can run at all.
stop(instance) ==
  IF instance.pc = "none"
    THEN [instance EXCEPT !.state = "Stopped", !.stop_requested = FALSE]
    ELSE [instance EXCEPT !.stop_requested = TRUE]

\* The head of the run loop: break when Stopped, else run an iteration.
loop_top(instance) ==
  IF instance.state = "Stopped"
    THEN [instance EXCEPT !.pc = "none"]
    ELSE [instance EXCEPT !.pc = "body"]

Engine_start ==
  /\ engine.pc = "none"
  /\ counts.calls < MaxCalls
  /\ engine' = start(engine)
  /\ counts' = [calls |-> counts.calls + 1]
  /\ history' = [history EXCEPT !.engine = Moved(@, engine'.state)]
  /\ UNCHANGED committer
  /\ LifecycleUnchanged

Engine_stop ==
  /\ counts.calls < MaxCalls
  /\ engine' = stop(engine)
  /\ counts' = [calls |-> counts.calls + 1]
  /\ history' = [history EXCEPT !.engine = Moved(@, engine'.state)]
  /\ UNCHANGED committer
  /\ LifecycleUnchanged

Engine_loop ==
  /\ engine.pc = "top"
  /\ engine' = loop_top(engine)
  /\ UNCHANGED <<committer, counts, history>>
  /\ LifecycleUnchanged

\* execute_block has returned.
Engine_execute_block ==
  /\ engine.pc = "body"
  /\ engine' = [engine EXCEPT !.pc = "top"]
  /\ UNCHANGED <<committer, counts, history>>
  /\ LifecycleUnchanged

Committer_start ==
  /\ committer.pc = "none"
  /\ counts.calls < MaxCalls
  /\ committer' = start(committer)
  /\ counts' = [calls |-> counts.calls + 1]
  /\ history' = [history EXCEPT !.committer = Moved(@, committer'.state)]
  /\ UNCHANGED engine
  /\ LifecycleUnchanged

Committer_stop ==
  /\ counts.calls < MaxCalls
  /\ committer' = stop(committer)
  /\ counts' = [calls |-> counts.calls + 1]
  /\ history' = [history EXCEPT !.committer = Moved(@, committer'.state)]
  /\ UNCHANGED engine
  /\ LifecycleUnchanged

Committer_loop ==
  /\ committer.pc = "top"
  /\ committer' = loop_top(committer)
  /\ UNCHANGED <<engine, counts, history>>
  /\ LifecycleUnchanged

\* One branch of the select has completed.
Committer_select ==
  /\ committer.pc = "body"
  /\ committer' = [committer EXCEPT !.pc = "top"]
  /\ UNCHANGED <<engine, counts, history>>
  /\ LifecycleUnchanged

LifecycleNext ==
  \/ Engine_start
  \/ Engine_stop
  \/ Engine_loop
  \/ Engine_execute_block
  \/ Committer_start
  \/ Committer_stop
  \/ Committer_loop
  \/ Committer_select

LifecycleSpec == LifecycleInit /\ [][LifecycleNext]_vars

\* The run loops are scheduled: each runs on a thread of its own.
LifecycleFairSpec ==
  /\ LifecycleSpec
  /\ WF_vars(Engine_loop)
  /\ WF_vars(Engine_execute_block)
  /\ WF_vars(Committer_loop)
  /\ WF_vars(Committer_select)

\* No state follows Stopped in the states an instance went through.
StoppedIsTerminal(states) ==
  \A i \in 1..Len(states) - 1 : states[i] # "Stopped"

\* C23: the lifecycle state of the engine and of the committer only moves
\* forward through Initialized, Running, Stopped: once an instance is
\* Stopped, no call of start or stop takes it to Running or Initialized.
C23_StoppedIsTerminal ==
  StoppedIsTerminal(history.engine) /\ StoppedIsTerminal(history.committer)

ConfirmationPending ==
  /\ committer.pc = "await_confirm"
  /\ UNCHANGED vars

\* The steps of the main loop that wait for nothing outside the node.
CommitterProceeds ==
  \/ ReadFromPool
  \/ CommitmentsWrite
  \/ ReceiveMessage
  \/ \E result \in {"error", "rejected", "success"} : ValidatorResponds(result)
  \/ ConfirmationPending
  \/ FinalizeAccounts
  \/ FinalizeTransactions
  \/ FinalizeNumber
  \/ FinalizeLatest
  \/ FinalizePut

PollingNext == Next \/ ConfirmationPending

PollingSpec == Init /\ [][PollingNext]_vars

\* Everything in the node is scheduled and the validator answers; whether
\* the L1 ever confirms the signature is left open.
PollingFairSpec ==
  /\ PollingSpec
  /\ WF_vars(Tick)
  /\ WF_vars(Engine)
  /\ WF_vars(CommitterProceeds)
  /\ WF_vars(Processor)

\* C25: the polling of the L1 for the confirmation of the validator's
\* signature ends, whether or not the L1 ever confirms it.
C25_PollingTerminates ==
  committer.pc = "await_confirm" ~> committer.pc # "await_confirm"

\* ------------------------------------------ the conversion of transactions
\* Byte arrays of a fixed width ([u8; 64], [u8; 32]) are single values.
ByteValues == {0, 255}
SignatureArrays == {"sig_a", "sig_b"}
KeyArrays == {"key_a", "key_b"}

\* The sequences over `values` of at most `length` elements.
SeqUpTo(values, length) == UNION {[1..n -> values] : n \in 0..length}

\* TrollupCompileInstruction, TrollupMessage, TrollupTransaction.
TrollupCompileInstructions ==
  [program_id_index : ByteValues, accounts : SeqUpTo({0}, 1), data : SeqUpTo({255}, 1)]

TrollupMessages ==
  [header : [1..3 -> ByteValues],
   account_keys : SeqUpTo(KeyArrays, MaxAccountKeys),
   recent_blockhash : KeyArrays,
   instructions : SeqUpTo(TrollupCompileInstructions, MaxInstructions)]

TrollupTransactions ==
  [optimistic : BOOLEAN,
   signatures : SeqUpTo(SignatureArrays, MaxSignatures),
   message : TrollupMessages]

\* message_header_from_bytes and its inverse, as written out in
\* convert_to_trollup_transaction.
message_header_from_bytes(bytes) ==
  [num_required_signatures |-> bytes[1],
   num_readonly_signed_accounts |-> bytes[2],
   num_readonly_unsigned_accounts |-> bytes[3]]

message_header_to_bytes(message_header) ==
  <<message_header.num_required_signatures,
    message_header.num_readonly_signed_accounts,
    message_header.num_readonly_unsigned_accounts>>

\* Signature::from([u8; 64]), Pubkey::from([u8; 32]), Hash::new(&[u8]) wrap
\* the bytes; into() and to_bytes() give them back.
Signature_from(bytes) == <<"Signature", bytes>>
Pubkey_from(bytes) == <<"Pubkey", bytes>>
Hash_new(bytes) == <<"Hash", bytes>>
to_bytes(wrapped) == wrapped[2]

\* A solana_sdk Transaction has signatures and a message, nothing else.
convert_to_solana_transaction(tx) ==
  [signatures |-> [i \in 1..Len(tx.signatures) |-> Signature_from(tx.signatures[i])],
   message |->
     [header |-> message_header_from_bytes(tx.message.header),
      account_keys |-> [i \in 1..Len(tx.message.account_keys) |->
                          Pubkey_from(tx.message.account_keys[i])],
      recent_blockhash |-> Hash_new(tx.message.recent_blockhash),
      instructions |-> [i \in 1..Len(tx.message.instructions) |->
                          [program_id_index |-> tx.message.instructions[i].program_id_index,
                           accounts |-> tx.message.instructions[i].accounts,
                           data |-> tx.message.instructions[i].data]]]]

convert_to_trollup_transaction(tx) ==
  [optimistic |-> FALSE,
   signatures |-> [i \in 1..Len(tx.signatures) |-> to_bytes(tx.signatures[i])],
   message |->
     [header |-> message_header_to_bytes(tx.message.header),
      account_keys |-> [i \in 1..Len(tx.message.account_keys) |->
                          to_bytes(tx.message.account_keys[i])],
      recent_blockhash |-> to_bytes(tx.message.recent_blockhash),
      instructions |-> [i \in 1..Len(tx.message.instructions) |->
                          [program_id_index |-> tx.message.instructions[i].program_id_index,
                           accounts |-> tx.message.instructions[i].accounts,
                           data |-> tx.message.instructions[i].data]]]]

\* One canonical transaction is given; nothing has been converted yet.
ConversionInit ==
  /\ transaction_pool = <<>>
  /\ commitment_pool = <<>>
  /\ account_store = EmptyMap
  /\ transaction_store = EmptyMap
  /\ block_store = EmptyMap
  /\ latest_block_id = NoId
  /\ optimistic_store = EmptyMap
  /\ commitments = EmptyMap
  /\ readers = {}
  /\ pda_channel = <<>>
  /\ processor_channel = <<>>
  /\ committer = CommitterIdle
  /\ processor = ProcessorIdle
  /\ engine = EngineIdle
  /\ counts = [transactions |-> 0, packages |-> 0, l1_events |-> 0]
  /\ \E tx \in TrollupTransactions :
       history = [stage |-> "canonical", transaction |-> tx,
                  internal |-> NoId, returned |-> NoId]

ConvertToSolana ==
  /\ history.stage = "canonical"
  /\ history' = [history EXCEPT
                   !.stage = "internal",
                   !.internal = convert_to_solana_transaction(history.transaction)]
  /\ UNCHANGED <<transaction_pool, commitment_pool, transaction_store, counts>>
  /\ PoolUnchanged

ConvertToTrollup ==
  /\ history.stage = "internal"
  /\ history' = [history EXCEPT
                   !.stage = "returned",
                   !.returned = convert_to_trollup_transaction(history.internal)]
  /\ UNCHANGED <<transaction_pool, commitment_pool, transaction_store, counts>>
  /\ PoolUnchanged

ConversionNext == ConvertToSolana \/ ConvertToTrollup

ConversionSpec == ConversionInit /\ [][ConversionNext]_vars

\* C26: a canonical transaction converted to the internal form and back is
\* the transaction it was, in every field, the optimistic flag included.
C26_ConversionRoundTrip ==
  history.stage = "returned" => history.returned = history.transaction

\* --------------------------------------------- the validator's commitment
\* A state root is RootWidth bytes.  A secret key is a scalar of the curve:
\* SecretKey::parse refuses zero and values past the order of the group.
StateRootArrays == [1..RootWidth -> ByteValues]
SecretKeyArrays == {"zero", "one", "two", "overflow"}
ValidSecretKeys == {"one", "two"}

\* keccak::Hasher over the bytes: a digest, different from its input.
keccak(bytes) == <<"keccak", bytes>>

\* Message::parse_slice: the scalar of 32 bytes.
Message_parse_slice(bytes) == <<"Message", bytes>>

PublicKey_from_secret_key(secret_key) == <<"PublicKey", secret_key>>

\* libsecp256k1::sign is deterministic; libsecp256k1::verify accepts a
\* signature for the message it was made for, under the signer's key.
sign(message, secret_key) ==
  [message |-> message, signer |-> PublicKey_from_secret_key(secret_key)]

verify(message, signature, public_key) ==
  signature.message = message /\ signature.signer = public_key

create_and_sign_commitment(new_state_root, verifier_secret_key) ==
  LET message_hash == keccak(new_state_root)
      message == Message_parse_slice(message_hash)
  IN IF verifier_secret_key \notin ValidSecretKeys
       THEN [ok |-> FALSE]
       ELSE [ok |-> TRUE,
             verifier_signature |-> sign(message, verifier_secret_key),
             public_key |-> PublicKey_from_secret_key(verifier_secret_key),
             new_state_root |-> new_state_root]

CommitmentInit ==
  /\ transaction_pool = <<>>
  /\ commitment_pool = <<>>
  /\ account_store = EmptyMap
  /\ transaction_store = EmptyMap
  /\ block_store = EmptyMap
  /\ latest_block_id = NoId
  /\ optimistic_store = EmptyMap
  /\ commitments = EmptyMap
  /\ readers = {}
  /\ pda_channel = <<>>
  /\ processor_channel = <<>>
  /\ committer = CommitterIdle
  /\ processor = ProcessorIdle
  /\ engine = EngineIdle
  /\ counts = [transactions |-> 0, packages |-> 0, l1_events |-> 0]
  /\ \E root \in StateRootArrays, secret_key \in SecretKeyArrays :
       history = [called |-> FALSE, new_state_root |-> root,
                  verifier_secret_key |-> secret_key, result |-> NoId]

CreateAndSign ==
  /\ ~history.called
  /\ history' = [history EXCEPT
                   !.called = TRUE,
                   !.result = create_and_sign_commitment(history.new_state_root,
                                                         history.verifier_secret_key)]
  /\ UNCHANGED <<transaction_pool, commitment_pool, transaction_store, counts>>
  /\ PoolUnchanged

CommitmentNext == CreateAndSign

CommitmentSpec == CommitmentInit /\ [][CommitmentNext]_vars

\* C27: with a valid secret key create_and_sign_commitment succeeds; the
\* commitment carries the input root and the key's public key, and its
\* signature verifies under that key for the message made of the root's
\* bytes.
C27_CommitmentSignsRoot ==
  (history.called /\ history.verifier_secret_key \in ValidSecretKeys) =>
    /\ history.result.ok
    /\ history.result.new_state_root = history.new_state_root
    /\ history.result.public_key =
         PublicKey_from_secret_key(history.verifier_secret_key)
    /\ verify(Message_parse_slice(history.new_state_root),
              history.result.verifier_signature, history.result.public_key)

\* ------------------------------------------------- the account loader
\* Keys looked up by the SVM: two accounts and one program of
\* CONFIG.program_ids_to_load.
LoaderKeys == {"A", "B", "program"}
program_ids == {"program"}

LoaderAccountStates == [address : LoaderKeys, lamports : {1, 2}]

\* Into<AccountSharedData> for AccountState: the address is left out.
into_account_shared_data(account) == [lamports |-> account.lamports, owner |-> "stored"]

\* AccountSharedData::from of the account the parent chain returned.
from_rpc_account == [lamports |-> 3, owner |-> "parent_chain"]

\* AccountSharedData::new(10000000000000, 0, system program); the lamports
\* are counted here in units of 10^12.
default_account == [lamports |-> 10, owner |-> "system"]

\* get_account_shared_data: where the answer comes from, what is returned
\* (<<>> stands for None) and whether it is put in the cache.  `rpc` is what
\* get_account_with_commitment would answer.
get_account_shared_data(cache, store, pubkey, rpc) ==
  IF pubkey \in DOMAIN cache
    THEN [from |-> "cache", returned |-> cache[pubkey], cached |-> FALSE]
  ELSE IF pubkey \in DOMAIN store
    THEN [from |-> "store", returned |-> into_account_shared_data(store[pubkey]), cached |-> TRUE]
  ELSE IF pubkey \in program_ids /\ rpc = "error"
    THEN [from |-> "parent_chain", returned |-> NoId, cached |-> FALSE]
  ELSE IF pubkey \in program_ids /\ rpc = "present"
    THEN [from |-> "parent_chain", returned |-> from_rpc_account, cached |-> TRUE]
  ELSE [from |-> IF pubkey \in program_ids THEN "parent_chain" ELSE "store",
        returned |-> default_account, cached |-> TRUE]

LoaderInit ==
  /\ transaction_pool = <<>>
  /\ commitment_pool = <<>>
  /\ account_store = EmptyMap
  /\ transaction_store = EmptyMap
  /\ block_store = EmptyMap
  /\ latest_block_id = NoId
  /\ optimistic_store = EmptyMap
  /\ commitments = EmptyMap
  /\ readers = {}
  /\ pda_channel = <<>>
  /\ processor_channel = <<>>
  /\ committer = CommitterIdle
  /\ processor = ProcessorIdle
  /\ engine = [pc |-> "idle", cache |-> EmptyMap]
  /\ counts = [batches |-> 0, lookups |-> 0, writes |-> 0]
  /\ history = [resolved |-> EmptyMap, reconsulted |-> {}, changed |-> {}]

LoaderUnchanged ==
  UNCHANGED <<transaction_pool, commitment_pool, transaction_store,
              block_store, latest_block_id, optimistic_store, commitments,
              readers, pda_channel, processor_channel, committer, processor>>

\* execute_svm_transactions, line 210: a batch starts with
\* TrollupAccountLoader::new, whose cache is an empty HashMap.
TrollupAccountLoader_new ==
  /\ engine.pc = "idle"
  /\ counts.batches < MaxBatches
  /\ engine' = [pc |-> "svm", cache |-> EmptyMap]
  /\ counts' = [counts EXCEPT !.batches = @ + 1]
  /\ UNCHANGED <<account_store, history>>
  /\ LoaderUnchanged

\* The SVM asks the loader for an account while it runs the batch.
LoaderLookup(pubkey, rpc) ==
  /\ engine.pc = "svm"
  /\ counts.lookups < MaxLookups
  /\ LET answer == get_account_shared_data(engine.cache, account_store, pubkey, rpc)
     IN /\ engine' = IF answer.cached
                       THEN [engine EXCEPT !.cache = Put(@, pubkey, answer.returned)]
                       ELSE engine
        /\ history' =
             IF pubkey \in DOMAIN history.resolved
               THEN [history EXCEPT
                       !.reconsulted = IF answer.from = "cache" THEN @ ELSE @ \cup {pubkey},
                       !.changed = IF answer.returned = history.resolved[pubkey]
                                     THEN @ ELSE @ \cup {pubkey}]
               ELSE IF answer.returned = NoId THEN history
               ELSE [history EXCEPT !.resolved = Put(@, pubkey, answer.returned)]
  /\ counts' = [counts EXCEPT !.lookups = @ + 1]
  /\ UNCHANGED account_store
  /\ LoaderUnchanged

\* execute_block, lines 163-171: after the SVM has run, an account snapshot
\* of the batch is written to the account store; the batch ends.
LoaderBatchWrites(state) ==
  /\ engine.pc = "svm"
  /\ counts.writes < MaxWrites
  /\ account_store' = Put(account_store, AccountKey(state), state)
  /\ engine' = [engine EXCEPT !.pc = "idle"]
  /\ counts' = [counts EXCEPT !.writes = @ + 1]
  /\ UNCHANGED history
  /\ LoaderUnchanged

\* execute_block returns with no account written.
LoaderBatchEnds ==
  /\ engine.pc = "svm"
  /\ engine' = [engine EXCEPT !.pc = "idle"]
  /\ UNCHANGED <<account_store, counts, history>>
  /\ LoaderUnchanged

LoaderNext ==
  \/ TrollupAccountLoader_new
  \/ \E pubkey \in LoaderKeys, rpc \in {"error", "absent", "present"} :
       LoaderLookup(pubkey, rpc)
  \/ \E state \in LoaderAccountStates : LoaderBatchWrites(state)
  \/ LoaderBatchEnds

LoaderSpec == LoaderInit /\ [][LoaderNext]_vars

\* C28: once a key has been resolved, every later lookup of it, in the same
\* batch or a later one, is answered from the cache with the value it was
\* resolved to, without asking the store or the parent chain again.
C28_LookupsAreMemoized == history.reconsulted = {} /\ history.changed = {}

\* ---------------------------------------------------- the registry lock
\* remove_commitment is waiting at self.commitments.write().await.
WriteRequested == committer.pc = "remove_wait"

\* C29: the registry lock never deadlocks: a write lock requested by the
\* main loop to remove an entry is eventually granted, whoever holds a read
\* guard at the time.
C29_WriteLockIsGranted == WriteRequested ~> ~WriteRequested

\* ------------------------------------- the main loop and the events it gets
\* The events a processor can put on the channel to the main loop.
CommitmentProcessorMessages ==
  {CommitmentProcessorMessage(processor_type, state_root) :
     processor_type \in {"OnChain", "TimeOut"}, state_root \in StateRoots}

\* optimistic_processor_sender.send: an event is queued for the main loop.
SendEvent(message) ==
  /\ counts.l1_events < MaxEvents
  /\ Len(processor_channel) < ChannelCapacity
  /\ processor_channel' = Append(processor_channel, message)
  /\ counts' = [counts EXCEPT !.l1_events = @ + 1]
  /\ UNCHANGED <<transaction_pool, commitment_pool, account_store,
                 transaction_store, block_store, latest_block_id,
                 optimistic_store, commitments, readers, pda_channel,
                 committer, processor, engine, history>>

\* The node, with the main loop given any event a processor can send.
EventNext ==
  \/ Next
  \/ \E message \in CommitmentProcessorMessages : SendEvent(message)

EventSpec == Init /\ [][EventNext]_vars

\* The main loop takes an event whose state root has no entry in the
\* registry.
ReceivesStale ==
  /\ ReceiveMessage \/ ReceiveWhileSuspended
  /\ Head(processor_channel).state_root \notin DOMAIN commitments

TakesUnmatched ==
  /\ ProcessorPda
  /\ Head(pda_channel) \notin DOMAIN commitments

\* C31: a notification whose state root matches no entry of the registry
\* makes the processor send no OnChain event, and the processor task keeps
\* running.
C31_UnmatchedNotificationIsSkipped ==
  [][TakesUnmatched =>
       /\ processor'.pc # "panicked"
       /\ UNCHANGED processor_channel]_vars

\* C32: registering an optimistic package adds one entry to the registry
\* and keeps every entry that was there: no pending package is removed or
\* replaced by another one.
C32_RegistrationKeepsEntries ==
  [][\A package \in Packages :
       Registers(package) =>
         /\ Cardinality(DOMAIN commitments') = Cardinality(DOMAIN commitments) + 1
         /\ \A state_root \in DOMAIN commitments :
              /\ state_root \in DOMAIN commitments'
              /\ commitments'[state_root] = commitments[state_root]]_vars

\* --------------------------------------------------------- the L1 watcher
\* PdaListener::start and connect_and_listen.  Times are seconds; inside a
\* connection the clock counts from the moment the connection was made.
MaxAttempts == 8
MaxNotifications == 2
MaxTime == 150
TimeStep == 15

initial_retry_interval == 1
max_retry_interval == 60
ping_period == 30
pong_timeout == 90

\* Every part of the node but the watcher and its channel is left out.
WatcherUnchanged ==
  UNCHANGED <<transaction_pool, commitment_pool, account_store,
              transaction_store, block_store, latest_block_id,
              optimistic_store, commitments, readers, processor_channel,
              committer, processor, engine, counts>>

\* PdaListener::start, lines 551-552, before the first connect_and_listen.
\* attempt, delay, pings, late and teardown record what happened.
WatcherInit ==
  /\ transaction_pool = <<>>
  /\ commitment_pool = <<>>
  /\ account_store = EmptyMap
  /\ transaction_store = EmptyMap
  /\ block_store = EmptyMap
  /\ latest_block_id = NoId
  /\ optimistic_store = EmptyMap
  /\ commitments = EmptyMap
  /\ readers = {}
  /\ pda_channel = <<>>
  /\ processor_channel = <<>>
  /\ committer = CommitterIdle
  /\ processor = ProcessorIdle
  /\ engine = EngineIdle
  /\ counts = [transactions |-> 0, packages |-> 0, l1_events |-> 0]
  /\ history = [pc |-> "connect", retry_interval |-> initial_retry_interval,
                result |-> "none", teardown |-> "none",
                now |-> 0, last_pong |-> 0, next_tick |-> 0, last_ping |-> 0,
                pings |-> <<>>, late |-> FALSE, message |-> NoId,
                attempt |-> 0, delay |-> 0]

\* connect_and_listen, lines 575-598: the URL is parsed, the socket is
\* opened and the subscription is sent (each can fail with `?`); then the
\* ping interval is created (its first tick is immediate) and last_pong is
\* set to the present.
Connect(established) ==
  /\ history.pc = "connect"
  /\ history' =
       IF established
         THEN [history EXCEPT !.pc = "listening", !.now = 0, !.last_pong = 0,
                              !.next_tick = 0, !.last_ping = 0, !.pings = <<>>,
                              !.late = FALSE, !.attempt = 0,
                              !.result = "none", !.teardown = "none"]
         ELSE [history EXCEPT !.pc = "returned", !.result = "Err",
                              !.teardown = "refused"]
  /\ UNCHANGED pda_channel
  /\ WatcherUnchanged

\* The ping_interval.tick() arm, lines 648-658.
KeepaliveTick(sent) ==
  /\ history.pc = "listening"
  /\ history.now = history.next_tick
  /\ history' =
       IF history.now - history.last_pong > pong_timeout
         THEN [history EXCEPT !.pc = "returned", !.result = "Ok",
                              !.teardown = "keepalive"]
       ELSE IF ~sent
         THEN [history EXCEPT !.pc = "returned", !.result = "Err",
                              !.teardown = "ping_failed"]
       ELSE [history EXCEPT !.pings = Append(@, history.now),
                            !.last_ping = history.now,
                            !.next_tick = history.now + ping_period]
  /\ UNCHANGED pda_channel
  /\ WatcherUnchanged

\* The read arm with Message::Pong, lines 635-638: the peer answers the
\* oldest ping it has not answered yet.
ReadPong ==
  /\ history.pc = "listening"
  /\ history.pings # <<>>
  /\ history' = [history EXCEPT !.last_pong = history.now, !.pings = Tail(@)]
  /\ UNCHANGED pda_channel
  /\ WatcherUnchanged

\* The read arm with Message::Close (Ok, lines 639-642) or with a socket
\* error (Err, lines 644-647).
ReadEnds(result) ==
  /\ history.pc = "listening"
  /\ history' = [history EXCEPT !.pc = "returned", !.result = result,
                                !.teardown = IF result = "Ok" THEN "close"
                                                              ELSE "error"]
  /\ UNCHANGED pda_channel
  /\ WatcherUnchanged

\* The read arm with an accountNotification, lines 603-620: the message is
\* built and the arm goes on to pda_sender.send(..).await.
ReadNotification(state_root) ==
  /\ history.pc = "listening"
  /\ counts.l1_events < MaxNotifications
  /\ history' = [history EXCEPT !.pc = "sending", !.message = state_root]
  /\ counts' = [counts EXCEPT !.l1_events = @ + 1]
  /\ UNCHANGED <<transaction_pool, commitment_pool, account_store,
                 transaction_store, block_store, latest_block_id,
                 optimistic_store, commitments, readers, pda_channel,
                 processor_channel, committer, processor, engine>>

\* pda_sender.send(..).await, line 621: completes when the channel has room;
\* until then the select loop is not polled.
SendToProcessor ==
  /\ history.pc = "sending"
  /\ Len(pda_channel) < ChannelCapacity
  /\ pda_channel' = Append(pda_channel, history.message)
  /\ history' = [history EXCEPT !.pc = "listening", !.message = NoId]
  /\ WatcherUnchanged

\* The optimistic processor takes a notification (pda_receiver.recv, line
\* 414), when it is not itself waiting for the registry lock or for room in
\* its channel to the main loop.
ProcessorReceives ==
  /\ pda_channel # <<>>
  /\ pda_channel' = Tail(pda_channel)
  /\ UNCHANGED history
  /\ WatcherUnchanged

\* Time passes inside a connection; late records that a ping has gone
\* pong_timeout seconds without its pong.  A due tick is served before more time
\* passes when the task waits in select!; a task that waits in send for room
\* in a full channel serves nothing.
TimePasses ==
  /\ history.now + TimeStep <= MaxTime
  /\ \/ history.pc = "listening" /\ history.now < history.next_tick
     \/ history.pc = "sending" /\ Len(pda_channel) = ChannelCapacity
  /\ history' =
       [history EXCEPT
          !.now = @ + TimeStep,
          !.late = @ \/ /\ history.pings # <<>>
                        /\ history.now + TimeStep - Head(history.pings) >= pong_timeout]
  /\ UNCHANGED pda_channel
  /\ WatcherUnchanged

\* PdaListener::start, lines 554-571, after connect_and_listen returned:
\* Ok resets the interval, then the task sleeps for the interval and doubles
\* it up to max_retry_interval.
Sleep ==
  /\ history.pc = "returned"
  /\ history.attempt < MaxAttempts
  /\ LET retry_interval == IF history.result = "Ok" THEN initial_retry_interval
                                                   ELSE history.retry_interval
     IN history' = [history EXCEPT
                      !.pc = "connect",
                      !.delay = retry_interval,
                      !.attempt = @ + 1,
                      !.retry_interval = Min(retry_interval * 2, max_retry_interval)]
  /\ UNCHANGED pda_channel
  /\ WatcherUnchanged

WatcherNext ==
  \/ \E established \in BOOLEAN : Connect(established)
  \/ \E sent \in BOOLEAN : KeepaliveTick(sent)
  \/ ReadPong
  \/ \E result \in {"Ok", "Err"} : ReadEnds(result)
  \/ \E state_root \in StateRoots : ReadNotification(state_root)
  \/ SendToProcessor
  \/ ProcessorReceives
  \/ TimePasses
  \/ Sleep

WatcherSpec == WatcherInit /\ [][WatcherNext]_vars

\* min(2^(k-1), 60) for k >= 1.
RECURSIVE BackOff(_)
BackOff(k) ==
  IF k = 1 THEN initial_retry_interval
  ELSE Min(2 * BackOff(k - 1), max_retry_interval)

\* C33: the delay slept before the k-th consecutive reconnect attempt (k
\* counts the attempts since a connection was last established) is
\* min(2^(k-1), 60) seconds, and it is between 1 s and 60 s.
C33_ReconnectBackOff ==
  history.attempt >= 1 =>
    /\ history.delay = BackOff(history.attempt)
    /\ history.delay >= initial_retry_interval
    /\ history.delay <= max_retry_interval

\* The watcher holds a connection: it waits in select! or in send.
Connected == history.pc \in {"listening", "sending"}

\* C34: while connected a ping goes out every 30 s; once more than 90 s
\* have passed without a pong the connection is torn down at the next
\* keepalive tick, so it is never seen open more than 90 s + 30 s after
\* the last pong; and the keepalive check tears down only a connection
\* that left a ping unanswered for 90 s.
C34_Keepalive ==
  /\ Connected => history.now - history.last_ping <= ping_period
  /\ Connected => history.now - history.last_pong <= pong_timeout + ping_period
  /\ history.teardown = "keepalive" => history.late

\* ------------------------------------------------- the leaf index of a key
MaxStaged == 3

TreeAddresses == {"A", "B", "C"}
TreeRecords == {[address |-> address, lamports |-> 1] : address \in TreeAddresses}
TreeRecordLists ==
  {<<>>} \cup {<<record>> : record \in TreeRecords}
         \cup {<<first, second>> : first \in TreeRecords, second \in TreeRecords}

\* Option::None of get_leaf_index.
NoIndex == -1

\* The index_map side of TreeComposite::add_states: each record's key is
\* mapped to state_tree.leaves().len() (0 when leaves() is None).  leaves()
\* of rs_merkle is the bottom layer of the committed tree; insert only
\* stages a leaf, so the length does not move during the loop.
RECURSIVE add_states_index_map(_, _, _)
add_states_index_map(tree_composite, index_map, state_records) ==
  IF state_records = <<>> THEN index_map
  ELSE add_states_index_map(
         tree_composite,
         Put(index_map, AccountKey(Head(state_records)),
             Len(tree_composite.state_tree.committed)),
         Tail(state_records))

\* TreeComposite::get_leaf_index.
get_leaf_index(index_map, id) ==
  IF id \in DOMAIN index_map THEN index_map[id] ELSE NoIndex

\* state_tree.commit(): the staged leaves join the tree.
commit(tree) == [committed |-> tree.committed \o tree.staged, staged |-> <<>>]

LeafIndexInit ==
  /\ transaction_pool = <<>>
  /\ commitment_pool = <<>>
  /\ account_store = EmptyMap
  /\ transaction_store = EmptyMap
  /\ block_store = EmptyMap
  /\ latest_block_id = NoId
  /\ optimistic_store = EmptyMap
  /\ commitments = EmptyMap
  /\ readers = {}
  /\ pda_channel = <<>>
  /\ processor_channel = <<>>
  /\ committer = CommitterIdle
  /\ processor = ProcessorIdle
  /\ engine = EngineIdle
  /\ counts = [transactions |-> 0, packages |-> 0, l1_events |-> 0]
  /\ history = [tree_composite |-> TreeComposite_new, index_map |-> EmptyMap,
                staged |-> <<>>]

\* tree_composite.add_states(account_states); staged keeps the records in
\* the order they were given.
AddStates(state_records) ==
  /\ Len(history.staged) + Len(state_records) <= MaxStaged
  /\ history' =
       [tree_composite |-> add_states(history.tree_composite, state_records),
        index_map |-> add_states_index_map(history.tree_composite,
                                           history.index_map, state_records),
        staged |-> history.staged \o state_records]
  /\ UNCHANGED pda_channel
  /\ WatcherUnchanged

\* tree_composite.state_tree.commit(), line 314.
CommitStateTree ==
  /\ history.tree_composite.state_tree.staged # <<>>
  /\ history' = [history EXCEPT !.tree_composite.state_tree = commit(@)]
  /\ UNCHANGED pda_channel
  /\ WatcherUnchanged

LeafIndexNext ==
  \/ \E state_records \in TreeRecordLists : AddStates(state_records)
  \/ CommitStateTree

LeafIndexSpec == LeafIndexInit /\ [][LeafIndexNext]_vars

\* The record was staged once only.
StagedOnce(i) ==
  \A j \in 1..Len(history.staged) :
    AccountKey(history.staged[j]) = AccountKey(history.staged[i]) => j = i

\* C35: the key of the i-th staged record has leaf index i - 1, the
\* position of its leaf in the tree in insertion order, and a key that was
\* never staged has none.
C35_LeafIndexIsPosition ==
  /\ \A i \in 1..Len(history.staged) :
       StagedOnce(i) =>
         get_leaf_index(history.index_map, AccountKey(history.staged[i])) = i - 1
  /\ \A address \in TreeAddresses :
       (\A i \in 1..Len(history.staged) : AccountKey(history.staged[i]) # address)
         => get_leaf_index(history.index_map, address) = NoIndex

\* ------------------------------------------------ the merkle crate's tree
\* merkle_tree.rs and merkle_proof.rs.  An Option is a sequence of length 0
\* or 1; a Node is [hash, left, right] with left and right Options.
MaxLeaves == 3
MaxInserted == 4

MerkleRecordLists == UNION {[1..n -> TreeRecords] : n \in 0..MaxLeaves}

None == <<>>
Some(value) == <<value>>

\* Node::new_leaf and Node::hash_account: Sha256 of the serialized record.
Node_new_leaf(state) == [hash |-> LeafHash(state), left |-> None, right |-> None]

\* Node::new_internal: Sha256 of the two child hashes, left then right.
Sha256_pair(left_hash, right_hash) == <<"node", left_hash, right_hash>>
Node_new_internal(left, right) ==
  [hash |-> Sha256_pair(left.hash, right.hash),
   left |-> Some(left), right |-> Some(right)]

\* The loop of build_tree over nodes.chunks(2): a last node without a
\* neighbour is paired with itself.
RECURSIVE parent_nodes(_)
parent_nodes(nodes) ==
  IF nodes = <<>> THEN <<>>
  ELSE IF Len(nodes) = 1 THEN <<Node_new_internal(nodes[1], nodes[1])>>
  ELSE <<Node_new_internal(nodes[1], nodes[2])>>
         \o parent_nodes(SubSeq(nodes, 3, Len(nodes)))

RECURSIVE build_tree(_)
build_tree(nodes) ==
  IF nodes = <<>> THEN None
  ELSE IF Len(nodes) = 1 THEN Some(nodes[1])
  ELSE build_tree(parent_nodes(nodes))

\* MerkleTree::new: the root is built from the leaf nodes, and the leaves
\* field is set to Default::default(), the empty vector.
MerkleTree_new(states) ==
  [root |-> build_tree([i \in 1..Len(states) |-> Node_new_leaf(states[i])]),
   leaves |-> <<>>]

\* MerkleTree::add_leaf.
add_leaf(tree, data) ==
  LET leaves == Append(tree.leaves, Node_new_leaf(data))
  IN [root |-> build_tree(leaves), leaves |-> leaves]

\* MerkleTree::root_hash.
root_hash(tree) == IF tree.root = None THEN None ELSE Some(tree.root[1].hash)

\* MerkleTree::generate_proof_recursive: the siblings are pushed on the way
\* back from the leaf, so they are listed from the leaf upwards.
RECURSIVE generate_proof_recursive(_, _)
generate_proof_recursive(node, target_hash) ==
  IF node = None THEN None
  ELSE IF node[1].hash = target_hash
    THEN Some([leaf_hash |-> target_hash, sibling_hashes |-> <<>>])
  ELSE
    LET in_left == IF node[1].left = None THEN None
                   ELSE generate_proof_recursive(node[1].left, target_hash)
    IN IF in_left # None
         THEN IF node[1].right # None
                THEN Some([in_left[1] EXCEPT !.sibling_hashes =
                             Append(@, <<node[1].right[1].hash, TRUE>>)])
                ELSE in_left
         ELSE
           LET in_right == IF node[1].right = None THEN None
                           ELSE generate_proof_recursive(node[1].right, target_hash)
           IN IF in_right # None
                THEN IF node[1].left # None
                       THEN Some([in_right[1] EXCEPT !.sibling_hashes =
                                    Append(@, <<node[1].left[1].hash, FALSE>>)])
                       ELSE in_right
                ELSE None

\* MerkleTree::generate_proof.
generate_proof(tree, account) ==
  generate_proof_recursive(tree.root, LeafHash(account))

\* A variant of the step of verify that ignores the side of the sibling.
hash_with_sibling_unordered(computed_hash, sibling) ==
  Sha256_pair(computed_hash, sibling[1])

\* One step of the loop of MerkleProof::verify: the sibling is hashed on
\* the side its flag says.
hash_with_sibling(computed_hash, sibling) ==
  IF sibling[2] THEN Sha256_pair(computed_hash, sibling[1])
  ELSE Sha256_pair(sibling[1], computed_hash)

RECURSIVE computed_hash(_, _)
computed_hash(hash, sibling_hashes) ==
  IF sibling_hashes = <<>> THEN hash
  ELSE computed_hash(hash_with_sibling(hash, Head(sibling_hashes)),
                     Tail(sibling_hashes))

\* MerkleProof::verify.
MerkleProof_verify(proof, root) ==
  computed_hash(proof.leaf_hash, proof.sibling_hashes) = root

\* The hashes of the leaf nodes under a node.
RECURSIVE LeafHashes(_)
LeafHashes(node) ==
  IF node = None THEN {}
  ELSE IF node[1].left = None /\ node[1].right = None THEN {node[1].hash}
  ELSE LeafHashes(node[1].left) \cup LeafHashes(node[1].right)

MerkleInit ==
  /\ transaction_pool = <<>>
  /\ commitment_pool = <<>>
  /\ account_store = EmptyMap
  /\ transaction_store = EmptyMap
  /\ block_store = EmptyMap
  /\ latest_block_id = NoId
  /\ optimistic_store = EmptyMap
  /\ commitments = EmptyMap
  /\ readers = {}
  /\ pda_channel = <<>>
  /\ processor_channel = <<>>
  /\ committer = CommitterIdle
  /\ processor = ProcessorIdle
  /\ engine = EngineIdle
  /\ counts = [transactions |-> 0, packages |-> 0, l1_events |-> 0]
  /\ \E states \in MerkleRecordLists :
       history = [tree |-> MerkleTree_new(states), inserted |-> states,
                  added |-> 0, proved |-> FALSE,
                  account |-> [address |-> "A", lamports |-> 1],
                  proof |-> None]

\* tree.add_leaf(&data); inserted keeps every record given to new or
\* add_leaf, in order.
AddLeaf(data) ==
  /\ Len(history.inserted) < MaxInserted
  /\ history' = [history EXCEPT !.tree = add_leaf(@, data),
                                !.inserted = Append(@, data),
                                !.added = @ + 1,
                                !.proved = FALSE, !.proof = None]
  /\ UNCHANGED pda_channel
  /\ WatcherUnchanged

\* tree.generate_proof(&account).
GenerateProof(account) ==
  /\ history' = [history EXCEPT !.proved = TRUE, !.account = account,
                                !.proof = generate_proof(history.tree, account)]
  /\ UNCHANGED pda_channel
  /\ WatcherUnchanged

MerkleNext ==
  \/ \E data \in TreeRecords : AddLeaf(data)
  \/ \E account \in TreeRecords : GenerateProof(account)

MerkleSpec == MerkleInit /\ [][MerkleNext]_vars

\* C36: the tree made by new(s) and then add_leaf calls has the root hash
\* of new(s followed by the added records): no leaf inserted earlier is
\* lost or reordered by a later add_leaf.
C36_TreeIsAppendOnly ==
  history.added > 0 =>
    root_hash(history.tree) = root_hash(MerkleTree_new(history.inserted))

\* The record is a leaf of the tree.
IsLeaf(tree, account) == LeafHash(account) \in LeafHashes(tree.root)

\* C37: for a record that is a leaf of the tree generate_proof returns a
\* proof that verifies against the tree's root hash, also when the leaf
\* count is odd and the last node is paired with itself; for a record that
\* is not a leaf it returns None.
C37_ProofRoundTrip ==
  history.proved =>
    IF IsLeaf(history.tree, history.account)
      THEN /\ history.proof # None
           /\ MerkleProof_verify(history.proof[1], root_hash(history.tree)[1])
      ELSE history.proof = None

\* A proof was made for the last of three leaves, whose node is paired with
\* itself, and it verifies.
C37_Witness ==
  /\ history.proved
  /\ history.added = 0
  /\ Len(history.inserted) = 3
  /\ history.account = history.inserted[3]
  /\ history.account # history.inserted[1]
  /\ history.account # history.inserted[2]
  /\ history.proof # None
  /\ history.proof[1].sibling_hashes[1] = <<LeafHash(history.account), TRUE>>
  /\ Len(history.proof[1].sibling_hashes) = 2
  /\ MerkleProof_verify(history.proof[1], root_hash(history.tree)[1])

\* ------------------------------------------------- the validator's handler
\* handler.rs prove and commitment.rs verify_and_commit, one request at a
\* time.  l1 lists the requests sent to the parent chain for the request,
\* anchored the state roots of the transactions the parent chain confirmed.
MaxRequests == 2

\* A variant of the test of is_valid that lets every proof pass.
verification_error_ignored(is_valid) == "none"

\* verify_and_commit, lines 66-68.
verification_error(is_valid) ==
  IF ~is_valid THEN "ProofVerificationFailed" ELSE "none"

ValidatorIdle ==
  [pc |-> "idle", state_root |-> NoId, proof_valid |-> FALSE,
   is_valid |-> "unknown", commitment |-> None, l1 |-> <<>>,
   result |-> "none", response |-> "none", anchored |-> <<>>]

ValidatorInit ==
  /\ transaction_pool = <<>>
  /\ commitment_pool = <<>>
  /\ account_store = EmptyMap
  /\ transaction_store = EmptyMap
  /\ block_store = EmptyMap
  /\ latest_block_id = NoId
  /\ optimistic_store = EmptyMap
  /\ commitments = EmptyMap
  /\ readers = {}
  /\ pda_channel = <<>>
  /\ processor_channel = <<>>
  /\ committer = CommitterIdle
  /\ processor = ProcessorIdle
  /\ engine = EngineIdle
  /\ counts = [transactions |-> 0, packages |-> 0, l1_events |-> 0]
  /\ history = ValidatorIdle

ValidatorUnchanged ==
  UNCHANGED <<transaction_pool, commitment_pool, account_store,
              transaction_store, block_store, latest_block_id,
              optimistic_store, commitments, readers, pda_channel,
              processor_channel, committer, processor, engine>>

\* prove, lines 25-31 and 45-48: the path parameter is decoded; a string
\* that is not base64 is answered with success false, one that is not 32
\* bytes long panics in the unwrap, otherwise verify_and_commit is called.
prove(state_root, decoded, proof_valid) ==
  /\ history.pc \in {"idle", "replied"}
  /\ counts.packages < MaxRequests
  /\ counts' = [counts EXCEPT !.packages = @ + 1]
  /\ history' =
       IF decoded = "not_base64"
         THEN [ValidatorIdle EXCEPT !.pc = "replied", !.response = "success_false",
                                    !.anchored = history.anchored]
       ELSE IF decoded = "wrong_length"
         THEN [ValidatorIdle EXCEPT !.pc = "replied", !.response = "panic",
                                    !.anchored = history.anchored]
       ELSE [ValidatorIdle EXCEPT !.pc = "verify", !.state_root = state_root,
                                  !.proof_valid = proof_valid,
                                  !.anchored = history.anchored]
  /\ ValidatorUnchanged

\* verify_and_commit, lines 61-68.
VerifyProofPackage ==
  /\ history.pc = "verify"
  /\ LET is_valid == history.proof_valid
         error == verification_error(is_valid)
     IN history' = [history EXCEPT
                      !.is_valid = IF is_valid THEN "true" ELSE "false",
                      !.result = error,
                      !.pc = IF error = "none" THEN "airdrop" ELSE "reply"]
  /\ UNCHANGED counts
  /\ ValidatorUnchanged

\* Lines 81-86: the airdrop is requested; a failure is only printed.
RequestAirdrop ==
  /\ history.pc = "airdrop"
  /\ history' = [history EXCEPT !.l1 = Append(@, "request_airdrop"),
                                !.pc = "sign"]
  /\ UNCHANGED counts
  /\ ValidatorUnchanged

\* Lines 94-101: the commitment is made with SecretKey::default().
CreateCommitment ==
  /\ history.pc = "sign"
  /\ history' = [history EXCEPT
                   !.commitment = Some(create_and_sign_commitment(history.state_root, "one")),
                   !.pc = "build"]
  /\ UNCHANGED counts
  /\ ValidatorUnchanged

\* Lines 107-131: the rent and the blockhash are asked from the parent
\* chain; each answer is unwrapped.
BuildTransaction(rent, blockhash) ==
  /\ history.pc = "build"
  /\ history' =
       IF ~rent
         THEN [history EXCEPT !.l1 = Append(@, "get_minimum_balance"),
                              !.result = "panic", !.pc = "reply"]
       ELSE IF ~blockhash
         THEN [history EXCEPT !.l1 = @ \o <<"get_minimum_balance", "get_latest_blockhash">>,
                              !.result = "panic", !.pc = "reply"]
       ELSE [history EXCEPT !.l1 = @ \o <<"get_minimum_balance", "get_latest_blockhash">>,
                            !.pc = "send"]
  /\ UNCHANGED counts
  /\ ValidatorUnchanged

\* Lines 134-143.
SendAndConfirm(confirmed) ==
  /\ history.pc = "send"
  /\ history' = [history EXCEPT
                   !.l1 = Append(@, IF confirmed THEN "send_confirmed" ELSE "send_failed"),
                   !.result = IF confirmed THEN "Ok(true)"
                                           ELSE "CommitmentTransactionFailed",
                   !.anchored = IF confirmed THEN Append(@, history.state_root)
                                             ELSE @,
                   !.pc = "reply"]
  /\ UNCHANGED counts
  /\ ValidatorUnchanged

\* prove, lines 32-42: Ok is answered with the value, Err with success false.
Reply ==
  /\ history.pc = "reply"
  /\ history' = [history EXCEPT
                   !.response = IF history.result = "Ok(true)" THEN "true"
                                ELSE IF history.result = "panic" THEN "panic"
                                ELSE "success_false",
                   !.pc = "replied"]
  /\ UNCHANGED counts
  /\ ValidatorUnchanged

ValidatorNext ==
  \/ \E state_root \in StateRoots,
        decoded \in {"not_base64", "wrong_length", "ok"},
        proof_valid \in BOOLEAN : prove(state_root, decoded, proof_valid)
  \/ VerifyProofPackage
  \/ RequestAirdrop
  \/ CreateCommitment
  \/ \E rent \in BOOLEAN, blockhash \in BOOLEAN : BuildTransaction(rent, blockhash)
  \/ \E confirmed \in BOOLEAN : SendAndConfirm(confirmed)
  \/ Reply

ValidatorSpec == ValidatorInit /\ [][ValidatorNext]_vars

\* C38: a commitment is signed and the parent chain is contacted only after
\* the proof verification returned true; an invalid proof ends in
\* ProofVerificationFailed with nothing signed and nothing sent; success is
\* reported only when the transaction was sent and confirmed.
C38_OnlyVerifiedProofsAreAnchored ==
  /\ (history.commitment # None \/ history.l1 # <<>>) =>
       history.proof_valid /\ history.is_valid = "true"
  /\ (history.pc \in {"reply", "replied"} /\ history.is_valid = "false") =>
       /\ history.result = "ProofVerificationFailed"
       /\ history.commitment = None
       /\ history.l1 = <<>>
       /\ history.response # "true"
  /\ (history.result = "Ok(true)" \/ history.response = "true") =>
       /\ history.result = "Ok(true)"
       /\ history.l1 # <<>>
       /\ history.l1[Len(history.l1)] = "send_confirmed"
       /\ history.commitment # None

\* A valid proof was anchored and the request answered with success.
C38_Witness ==
  /\ history.pc = "replied"
  /\ history.response = "true"
  /\ history.is_valid = "true"
  /\ history.commitment # None
  /\ history.l1[Len(history.l1)] = "send_confirmed"

\* ------------------------------------ the signature-verify on-chain program
\* validator-signature-verify/src/lib.rs.  Two accounts can be passed as the
\* state account: the program's state PDA, and another account that was
\* created with the program as its owner.
MaxProgramCalls == 3

\* The 32 zero bytes of a created account.
ZeroRoot == <<"zero">>

ProgramAccounts == {"pda", "other"}

\* The commitments an instruction can carry: a root, a signature made over
\* the Keccak digest of some root with some key, and the public key the
\* sender puts in.
ZkProofCommitments ==
  {[verifier_signature |-> sign(Message_parse_slice(keccak(signed_root)), secret_key),
    recoverable |-> recoverable,
    public_key |-> PublicKey_from_secret_key(claimed_key),
    new_state_root |-> new_state_root] :
     signed_root \in StateRoots, secret_key \in ValidSecretKeys,
     recoverable \in BOOLEAN, claimed_key \in ValidSecretKeys,
     new_state_root \in StateRoots}

\* secp256k1_recover: an error for a malformed signature or recovery id;
\* the signer's key for the hash the signature was made over, and a key
\* that is nobody's for any other hash.
secp256k1_recover(hash, commitment) ==
  IF ~commitment.recoverable THEN None
  ELSE IF commitment.verifier_signature.message = Message_parse_slice(hash)
    THEN Some(commitment.verifier_signature.signer)
  ELSE Some(PublicKey_from_secret_key("unrelated"))

\* A variant of verify_signature_with_recover that accepts every commitment.
verify_signature_with_recover_always(commitment) == TRUE

\* verify_signature_with_recover: TRUE for Ok, FALSE for Err.
verify_signature_with_recover(commitment) ==
  LET message_hash == keccak(commitment.new_state_root)
      recovered_pubkey == secp256k1_recover(message_hash, commitment)
      expected_pubkey == commitment.public_key
  IN /\ recovered_pubkey # None
     /\ recovered_pubkey[1] = expected_pubkey

\* update_on_chain_state: the accounts after the call, or the error.
update_on_chain_state(accounts, state_root, account, is_writable) ==
  IF ~is_writable THEN [ok |-> FALSE, accounts |-> accounts]
  ELSE [ok |-> TRUE,
        accounts |-> [accounts EXCEPT ![account].data = Some(state_root)]]

\* verify_proof.  `passed` is the first account of the instruction, None
\* when the account list is empty.
verify_proof(accounts, passed, is_writable, proof_commitment) ==
  IF ~verify_signature_with_recover(proof_commitment)
    THEN [ok |-> FALSE, accounts |-> accounts]
  ELSE IF passed = None THEN [ok |-> FALSE, accounts |-> accounts]
  ELSE IF passed[1] # "pda" THEN [ok |-> FALSE, accounts |-> accounts]
  ELSE IF accounts[passed[1]].owner # "program"
    THEN [ok |-> FALSE, accounts |-> accounts]
  ELSE update_on_chain_state(accounts, proof_commitment.new_state_root,
                             passed[1], is_writable)

\* initialize.  `complete` says that the payer and the system program
\* follow the state account; `created` is the outcome of the system
\* program's create_account, which fails for an address that is in use.
initialize(accounts, passed, complete, created) ==
  IF passed = None \/ ~complete THEN [ok |-> FALSE, accounts |-> accounts]
  ELSE IF passed[1] # "pda" THEN [ok |-> FALSE, accounts |-> accounts]
  ELSE IF accounts[passed[1]].data # None
    THEN [ok |-> FALSE, accounts |-> accounts]
  ELSE IF ~created THEN [ok |-> FALSE, accounts |-> accounts]
  ELSE [ok |-> TRUE,
        accounts |-> [accounts EXCEPT ![passed[1]] =
                        [data |-> Some(ZeroRoot), owner |-> "program"]]]

\* No instruction has run yet.
NoInstruction ==
  [kind |-> "none", passed |-> None, is_writable |-> FALSE, commitment |-> None,
   ok |-> FALSE]

ProgramInit ==
  /\ transaction_pool = <<>>
  /\ commitment_pool = <<>>
  /\ account_store = EmptyMap
  /\ transaction_store = EmptyMap
  /\ block_store = EmptyMap
  /\ latest_block_id = NoId
  /\ optimistic_store = EmptyMap
  /\ commitments = EmptyMap
  /\ readers = {}
  /\ pda_channel = <<>>
  /\ processor_channel = <<>>
  /\ committer = CommitterIdle
  /\ processor = ProcessorIdle
  /\ engine = EngineIdle
  /\ counts = [transactions |-> 0, packages |-> 0, l1_events |-> 0]
  /\ \E root \in StateRoots :
       history = [accounts |-> [account \in ProgramAccounts |->
                                  IF account = "pda"
                                    THEN [data |-> None, owner |-> "system"]
                                    ELSE [data |-> Some(root), owner |-> "program"]],
                  before |-> None, initialized |-> 0, last |-> NoInstruction]

\* The program's accounts after an instruction, with what it was and what
\* the state PDA held before it.
Ran(instruction, outcome) ==
  [accounts |-> outcome.accounts,
   before |-> history.accounts["pda"].data,
   initialized |-> IF outcome.ok /\ instruction.kind = "Initialize"
                     THEN history.initialized + 1 ELSE history.initialized,
   last |-> [instruction EXCEPT !.ok = outcome.ok]]

\* process_instruction with data that is no ProgramInstruction.
ProcessMalformed ==
  /\ counts.packages < MaxProgramCalls
  /\ counts' = [counts EXCEPT !.packages = @ + 1]
  /\ history' = Ran([NoInstruction EXCEPT !.kind = "Malformed"],
                    [ok |-> FALSE, accounts |-> history.accounts])
  /\ ValidatorUnchanged

\* process_instruction with ProgramInstruction::Initialize.
ProcessInitialize(passed, complete, created) ==
  /\ counts.packages < MaxProgramCalls
  /\ counts' = [counts EXCEPT !.packages = @ + 1]
  /\ history' = Ran([NoInstruction EXCEPT !.kind = "Initialize", !.passed = passed],
                    initialize(history.accounts, passed, complete, created))
  /\ ValidatorUnchanged

\* process_instruction with ProgramInstruction::VerifySig.
ProcessVerifySig(passed, is_writable, proof_commitment) ==
  /\ counts.packages < MaxProgramCalls
  /\ counts' = [counts EXCEPT !.packages = @ + 1]
  /\ history' = Ran([NoInstruction EXCEPT !.kind = "VerifySig", !.passed = passed,
                                          !.is_writable = is_writable,
                                          !.commitment = Some(proof_commitment)],
                    verify_proof(history.accounts, passed, is_writable,
                                 proof_commitment))
  /\ ValidatorUnchanged

PassedAccounts == {None} \cup {Some(account) : account \in ProgramAccounts}

ProgramNext ==
  \/ ProcessMalformed
  \/ \E passed \in PassedAccounts, complete \in BOOLEAN, created \in BOOLEAN :
       ProcessInitialize(passed, complete, created)
  \/ \E passed \in PassedAccounts, is_writable \in BOOLEAN,
        proof_commitment \in ZkProofCommitments :
       ProcessVerifySig(passed, is_writable, proof_commitment)

ProgramSpec == ProgramInit /\ [][ProgramNext]_vars

\* The signature of the commitment was made over the Keccak digest of the
\* commitment's root with the key whose public key the commitment names.
RecoversToExpected(commitment) ==
  /\ commitment.recoverable
  /\ verify(Message_parse_slice(keccak(commitment.new_state_root)),
            commitment.verifier_signature, commitment.public_key)

\* C39: the root anchored in the initialized state account changes only by
\* a VerifySig whose signature recovers to the expected key and whose first
\* account is the writable state PDA owned by the program; an instruction
\* that fails leaves the account data as it was; Initialize succeeds at
\* most once.
C39_RootChangesOnlyByVerifySig ==
  /\ (history.before # None /\ history.accounts["pda"].data # history.before) =>
       /\ history.last.kind = "VerifySig"
       /\ history.last.ok
       /\ RecoversToExpected(history.last.commitment[1])
       /\ history.last.passed = Some("pda")
       /\ history.last.is_writable
       /\ history.accounts["pda"].owner = "program"
       /\ history.accounts["pda"].data = Some(history.last.commitment[1].new_state_root)
  /\ (history.last.kind # "none" /\ ~history.last.ok) =>
       history.accounts["pda"].data = history.before
  /\ \A account \in ProgramAccounts \ {"pda"} :
       history.accounts[account].data # None
         /\ history.accounts[account].data[1] \in StateRoots
  /\ history.initialized <= 1
  /\ (history.last.kind = "Initialize" /\ history.before # None) => ~history.last.ok

\* A valid VerifySig has replaced the root of the initialized state account.
C39_Witness ==
  /\ history.initialized = 1
  /\ history.last.kind = "VerifySig"
  /\ history.last.ok
  /\ history.before # None
  /\ history.accounts["pda"].data # history.before
====
